---- MODULE Spec2Model ----
(***************************************************************************)
(* The task orchestration core of the blessings image pipeline: the        *)
(* generate/review loop of AIService.generateWithReview, the background    *)
(* pipelines that drive one task through the task store (the KV-backed     *)
(* handler of functions/api/[[route]].ts, the D1-backed handler with the   *)
(* review loop, and the older D1-backed handler without it), the           *)
(* validation of an upload, the expiry of KV records, and the status and   *)
(* result lookups.                                                         *)
(***************************************************************************)
EXTENDS Integers, Sequences, FiniteSets, TLC

\* Largest MAX_RETRIES value the KV-backed deployment is configured with.
MaxRetriesBound == 3

\* maxRetries passed by the D1-backed handler.
D1MaxRetries == 3

\* default of parseInt(c.env.MAX_RETRIES || '1', 10)
DefaultMaxRetries == 1

\* The NaN that parseInt returns for a text without leading digits.  Every
\* comparison with NaN is false; the value stands below every attempt number
\* and the loop condition tests for it.
NaN == -1000

\* Values of the MAX_RETRIES binding: unset (or empty), the decimal text of n,
\* or a text without leading digits.
EnvUnset == [kind |-> "unset", n |-> 0]
EnvNumber(n) == [kind |-> "number", n |-> n]
EnvText == [kind |-> "text", n |-> 0]
MaxRetriesSettings ==
    {EnvUnset, EnvText} \cup {EnvNumber(n) : n \in -1 .. MaxRetriesBound}

\* parseInt(text, 10)
ParseInt(env) == IF env.kind = "number" THEN env.n ELSE NaN

\* const maxRetries = parseInt(c.env.MAX_RETRIES || '1', 10)
ConfiguredMaxRetries(env) ==
    ParseInt(IF env.kind = "unset" THEN EnvNumber(DefaultMaxRetries) ELSE env)

\* APPROVAL RULE of the review prompt: every score >= 7.
ApprovalThreshold == 7

Variants == {"kv", "d1", "legacy"}

\* { expirationTtl: 3600 }: seconds a KV record lives after a put.
ExpirationTtl == 3600

\* image.size > 10 * 1024 * 1024
MaxImageSize == 10485760

\* Seconds the clock advances in one step.
TickSeconds == 1800

\* Latest instant the clock is followed to.
MaxTime == 7200

----------------------------------------------------------------------------
(* Statuses.  The code builds `${status}_ATTEMPT_${attempt}`; a status is   *)
(* the pair of its name and its attempt suffix, attempt 0 meaning that the  *)
(* string carries no suffix.                                                *)

Status(name, attempt) == [name |-> name, attempt |-> attempt]

NoStatus == Status("NONE", 0)

\* CHECK(status IN ('PENDING','ANALYZING','GENERATING','COMPLETED','FAILED'))
SchemaStatuses == {"PENDING", "ANALYZING", "GENERATING", "COMPLETED", "FAILED"}

----------------------------------------------------------------------------
(* Review results.                                                          *)

Dimensions ==
    {"face_match", "outfit", "pose", "full_body", "quality", "cultural", "realism"}

AllScores(v) == [d \in Dimensions |-> v]

OneLowScore == [AllScores(10) EXCEPT !["face_match"] = 6]

Review(approved, overall, scores, issues) ==
    [approved |-> approved, overall_score |-> overall, scores |-> scores,
     issues |-> issues]

\* `null`: the initial value of lastReview.
NullReview == Review(FALSE, -1, AllScores(-1), "null")

\* What JSON.parse may yield for a well-formed answer of the review model:
\* the model fills `approved` and the scores independently.
ModelReviews ==
    { Review(a, s[1], s[2], "model") :
        a \in BOOLEAN,
        s \in { <<10, AllScores(10)>>, <<9, OneLowScore>> } }

\* Faulty variant of the verdict returned on a parse failure: it approves.
ParseFailureReviewApproved ==
    Review(TRUE, 0, AllScores(0), "Failed to parse expert review response")

ParseFailureReview ==
    Review(FALSE, 0, AllScores(0), "Failed to parse expert review response")

ReviewFailedReview ==
    Review(FALSE, 0, AllScores(0), "Expert review process failed")

AutoApproveReview == Review(TRUE, 10, AllScores(10), "")

\* reviewGeneratedImage: the outcomes of one call.  It never throws.
ReviewOutcomes == ModelReviews \cup {ParseFailureReview, ReviewFailedReview}

MinScore(r) ==
    CHOOSE v \in {r.scores[d] : d \in Dimensions} :
        \A d \in Dimensions : v <= r.scores[d]

----------------------------------------------------------------------------
(* Images.                                                                  *)

NullImage == "null"
EmptyImage == "empty"
GeminiImages == {"gemini_a"}
FallbackImages == {"pollinations_a", EmptyImage}

\* generateImage (lib/services/ai): Gemini's image, else the fallback's.
GenerateOutcomes == GeminiImages \cup FallbackImages

\* generateImage returned nothing: the fallback's fetch threw.
GenerateThrew == "threw"

\* The generated image an earlier upload stored.
PriorImage == "gemini_prior"

ByteLength(img) == IF img = EmptyImage THEN 0 ELSE 1

----------------------------------------------------------------------------
(* Analysis.                                                                *)

AnalysisTexts ==
    {"feasible", "infeasible_described", "infeasible_issues", "infeasible_bare",
     "unparseable"}

\* JSON.parse of the analysis text; on a parse error the KV handler keeps
\* {raw_analysis: text}, the D1 handlers keep {}.
ParseAnalysis(v, text) ==
    IF text = "unparseable"
    THEN (IF v = "kv" THEN "raw_analysis" ELSE "empty_object")
    ELSE text

\* analysisJson.is_feasible === false
IsInfeasible(aj) ==
    aj \in {"infeasible_described", "infeasible_issues", "infeasible_bare"}

\* analysisJson.description || analysisJson.issues?.join(', ') || 'Image analysis failed'
FailureReason(aj) ==
    CASE aj = "infeasible_described" -> "description"
      [] aj = "infeasible_issues" -> "issues"
      [] OTHER -> "Image analysis failed"

----------------------------------------------------------------------------
(* Task records.  A field the record does not carry is "absent".            *)

AnalysisResult(aj, review, attempts, err) ==
    [analysis |-> aj, expert_review |-> review, generation_attempts |-> attempts,
     error |-> err]

AbsentAnalysis == AnalysisResult("absent", NullReview, -1, "absent")
KeepAnalysis == AnalysisResult("keep", NullReview, -1, "keep")
KeepStatus == Status("KEEP", 0)

Task(status, err, path, ar) ==
    [exists |-> TRUE, status |-> status, error_message |-> err,
     original_image_path |-> "original.jpg",
     generated_image_path |-> path, analysis_result |-> ar]

\* kv.get of a key that was never written or has expired: null.
NoTask ==
    [exists |-> FALSE, status |-> NoStatus, error_message |-> "absent",
     original_image_path |-> "absent",
     generated_image_path |-> "absent", analysis_result |-> AbsentAnalysis]

\* The record an earlier upload left under the id this upload draws.
PriorTask ==
    [Task(Status("COMPLETED", 0), "absent", "prior/generated.jpg",
          AnalysisResult("feasible", AutoApproveReview, 1, "absent"))
        EXCEPT !.original_image_path = "prior/original.jpg"]

\* The fields one write sets; the others keep the value of the record written over.
Patch(status, err, path, ar) ==
    [status |-> status, error_message |-> err, generated_image_path |-> path,
     analysis_result |-> ar]

\* { ...currentTask, status, ...extra }  /  UPDATE tasks SET ... WHERE id = ?
ApplyPatch(t, p) ==
    [exists |-> TRUE,
     status |-> IF p.status = KeepStatus THEN t.status ELSE p.status,
     error_message |->
        IF p.error_message = "keep" THEN t.error_message ELSE p.error_message,
     original_image_path |-> t.original_image_path,
     generated_image_path |->
        IF p.generated_image_path = "keep" THEN t.generated_image_path
        ELSE p.generated_image_path,
     analysis_result |->
        IF p.analysis_result = KeepAnalysis THEN t.analysis_result
        ELSE p.analysis_result]

StatusPatch(status) == Patch(status, "keep", "keep", KeepAnalysis)

\* The CHECK constraint of the tasks table on a written status.
CheckConstraintHolds(p) ==
    p.status = KeepStatus \/ (p.status.attempt = 0 /\ p.status.name \in SchemaStatuses)

\* A write in flight: updateStatus is a kv.get ("get") followed by a kv.put
\* ("put") of the record read; a D1 statement is one step ("run").
IdleCall == [phase |-> "idle", patch |-> StatusPatch(KeepStatus), cur |-> NoTask]
StartCall(v, p) ==
    [phase |-> IF v = "kv" THEN "get" ELSE "run", patch |-> p, cur |-> NoTask]

----------------------------------------------------------------------------
(* The validation of an upload.                                             *)

\* c.env.INVITE_CODE: "" when no invite code is configured.
InviteCodes == {"", "secret"}

\* body['invite_code']
FormCodes == {"undefined", "", "secret", "guess"}

\* image.size
ImageSizes == {0, MaxImageSize, MaxImageSize + 1}

\* What the handlers read of an upload request and of their environment.
Requests ==
    [env : InviteCodes, invite_code : FormCodes, isFile : BOOLEAN, size : ImageSizes]

\* if (c.env.INVITE_CODE) { if (!inviteCode || inviteCode !== c.env.INVITE_CODE)
InviteRejected(req) ==
    /\ req.env # ""
    /\ (req.invite_code \in {"undefined", ""} \/ req.invite_code # req.env)

\* Faulty variant of the size check: no limit is applied.
SizeLimitExceededNever(size) == FALSE

\* if (image.size > 10 * 1024 * 1024)
SizeLimitExceeded(size) == size > MaxImageSize

\* The checks the upload handlers make before they create anything: "ok", the
\* `code` of the KV handler's rejection, or "no_code" for a rejection of the D1
\* handlers, whose error bodies carry no code.
ValidateUpload(v, req) ==
    IF v # "legacy" /\ InviteRejected(req)
    THEN (IF v = "kv" THEN "INVALID_INVITE_CODE" ELSE "no_code")
    ELSE IF ~req.isFile
    THEN (IF v = "kv" THEN "NO_IMAGE" ELSE "no_code")
    ELSE IF v = "kv" /\ SizeLimitExceeded(req.size)
    THEN "IMAGE_TOO_LARGE"
    ELSE "ok"

\* The `code` values of the KV handler's validation errors.
RejectionCodes == {"INVALID_INVITE_CODE", "NO_IMAGE", "IMAGE_TOO_LARGE"}

\* Faulty variant of the upload response: nothing is returned until the
\* background work has ended.
CreatedResponseDeferred(v) == "none"

\* return c.json({ taskId, status, ... }) after waitUntil(...)
CreatedResponse(v) == "task"

----------------------------------------------------------------------------
(* The status and result lookups.                                           *)

\* A lookup's response: the HTTP status, the body's `code`, `status`, error
\* message, image and analysis, and `task`, the record the handler read.
Lookup(kind, http, code, status, message, image, analysis, task) ==
    [kind |-> kind, http |-> http, code |-> code, status |-> status,
     message |-> message, image |-> image, analysis |-> analysis, task |-> task]

NoLookup ==
    Lookup("none", 0, "absent", NoStatus, "absent", NullImage, AbsentAnalysis, NoTask)

\* app.get('/status/:taskId')
StatusLookup(v, task) ==
    IF ~task.exists
    THEN Lookup("status", 404, IF v = "kv" THEN "TASK_NOT_FOUND" ELSE "absent",
                NoStatus, "absent", NullImage, AbsentAnalysis, task)
    ELSE IF v = "kv"
    THEN Lookup("status", 200, "absent", task.status, task.error_message,
                NullImage, AbsentAnalysis, task)
    ELSE Lookup("status", 200, "absent", task.status, "absent", NullImage,
                task.analysis_result, task)

\* app.get('/result/:taskId'); object is what the object store returns for the
\* generated image, NullImage when the fetch fails.
ResultLookup(v, task, object) ==
    IF ~task.exists
    THEN Lookup("result", 404, IF v = "kv" THEN "TASK_NOT_FOUND" ELSE "absent",
                NoStatus, "absent", NullImage, AbsentAnalysis, task)
    ELSE IF task.status # Status("COMPLETED", 0)
    THEN (IF v = "kv"
          THEN Lookup("result", 400, "absent", task.status, task.error_message,
                      NullImage, AbsentAnalysis, task)
          ELSE Lookup("result", 400, "absent", NoStatus, "absent", NullImage,
                      AbsentAnalysis, task))
    ELSE IF v = "kv" /\ task.generated_image_path = "absent"
    THEN Lookup("result", 404, "absent", NoStatus, "absent", NullImage,
                AbsentAnalysis, task)
    ELSE IF object = NullImage
    THEN Lookup("result", 500, "absent", NoStatus, "absent", NullImage,
                AbsentAnalysis, task)
    ELSE Lookup("result", 200, "absent", task.status, "absent", object,
                task.analysis_result, task)

----------------------------------------------------------------------------
(* The generate/review loop: its pure parts.                                *)

\* Faulty variant of the loop condition: one attempt too many.
LoopConditionOffByOne(a, m) == a <= m + 1

\* for (let attempt = 1; attempt <= maxRetries; attempt++)
LoopCondition(a, m) == m # NaN /\ a <= m

\* Faulty variant of the approval test: a perfect overall score is required too.
IsApprovedOnlyIfPerfect(r) == r.approved /\ r.overall_score >= 10

\* if (review.approved)
IsApproved(r) == r.approved

LoopResult(img, review, attempts) ==
    [returned |-> TRUE, imageBuffer |-> img, finalReview |-> review,
     attempts |-> attempts]

NoResult ==
    [returned |-> FALSE, imageBuffer |-> NullImage, finalReview |-> NullReview,
     attempts |-> 0]

\* Faulty variant of the skipReview return: the verdict of an unparsed review.
SkipReviewResultUnapproved(img, a) == LoopResult(img, ParseFailureReview, a)

\* return { imageBuffer: generatedBuffer, finalReview: autoApproveReview, attempts: attempt }
SkipReviewResult(img, a) == LoopResult(img, AutoApproveReview, a)

\* Faulty variant of the return on approval: attempts counted one too high.
ApprovedResultNextAttempt(img, review, a) == LoopResult(img, review, a + 1)

\* return { imageBuffer: generatedBuffer, finalReview: review, attempts: attempt }
ApprovedResult(img, review, a) == LoopResult(img, review, a)

\* Faulty variant of the return on exhaustion: a placeholder image stands in
\* when no attempt produced one.
ExhaustedResultPlaceholder(lastBuf, lastRev, m) ==
    LoopResult(IF lastBuf = NullImage THEN "gemini_a" ELSE lastBuf, lastRev, m)

\* Faulty variant of the return on exhaustion: the last image is not kept.
ExhaustedResultNoImage(lastBuf, lastRev, m) == LoopResult(NullImage, lastRev, m)

\* return { imageBuffer: lastGeneratedBuffer!, finalReview: lastReview!, attempts: maxRetries }
ExhaustedResult(lastBuf, lastRev, m) == LoopResult(lastBuf, lastRev, m)

Event(status, a) == [status |-> status, attempt |-> a]

\* Faulty variant of the status text: a retry falls back to the plain 'GENERATING'.
StatusTextResetOnRetry(status, a) ==
    IF status = "REGENERATING" THEN Status("GENERATING", 0) ELSE Status(status, a)

\* The status text the onStatusUpdate callback of the handlers writes.
StatusText(status, a) == Status(status, a)

\* Faulty variant of the final write: a rejected last review fails the task.
CompletedPatchOnApprovalOnly(v, aj, res) ==
    Patch(Status(IF res.finalReview.approved THEN "COMPLETED" ELSE "FAILED", 0),
          "keep", "generated.jpg",
          AnalysisResult(aj, res.finalReview, res.attempts, "absent"))

\* COMPLETED write: generated_image_path and
\* analysis_result = {...analysisJson, expert_review, generation_attempts}
CompletedPatch(v, aj, res) ==
    IF v = "legacy"
    THEN Patch(Status("COMPLETED", 0), "keep", "generated.jpg", KeepAnalysis)
    ELSE Patch(Status("COMPLETED", 0), "keep", "generated.jpg",
               AnalysisResult(aj, res.finalReview, res.attempts, "absent"))

\* Faulty variant of the catch block's write: the message is stored, the status
\* is left as it was.
FailedPatchKeepsStatus(v, msg) == Patch(KeepStatus, msg, "keep", KeepAnalysis)

\* The write of the catch block.
FailedPatch(v, msg) ==
    CASE v = "kv" -> Patch(Status("FAILED", 0), msg, "keep", KeepAnalysis)
      [] v = "d1" -> Patch(Status("FAILED", 0), "keep", "keep",
                           AnalysisResult("absent", NullReview, -1, msg))
      [] OTHER -> StatusPatch(Status("FAILED", 0))

\* The write made when the analysis says is_feasible === false.
InfeasiblePatch(v, aj) ==
    IF v = "d1"
    THEN Patch(Status("FAILED", 0), "keep", "keep",
               AnalysisResult("absent", NullReview, -1, FailureReason(aj)))
    ELSE StatusPatch(Status("FAILED", 0))

----------------------------------------------------------------------------
(* State.                                                                   *)

VARIABLES
    variant,              \* which handler serves the upload
    maxRetries,           \* parseInt(MAX_RETRIES || '1') / the literal 3
    skipReview,           \* !enableReview
    pc,                   \* position of the request handler / background pipeline
    call,                 \* the store write in flight
    store,                \* the task record in the task store
    ossOriginal,          \* original image persisted in the object store
    ossGenerated,         \* generated image persisted in the object store
    response,             \* the upload response: "none", "task", "error"
    analysisJson,         \* parsed analysis
    attempt,              \* loop counter of generateWithReview
    lastGeneratedBuffer,  \* lastGeneratedBuffer (= generatedBuffer of the attempt)
    lastReview,           \* lastReview (= review of the attempt)
    result,               \* what generateWithReview returned
    genCalls,             \* history: generateImage invocations
    reviewCalls,          \* history: reviewGeneratedImage invocations
    lastGenOut,           \* history: what the last generateImage call returned
    lastRevOut,           \* history: what the last review call returned
    events,               \* history: onStatusUpdate invocations (status, attempt)
    eventReview,          \* history: the review passed to the last onStatusUpdate
    error,                \* message of the error the catch block caught
    handling,             \* the catch block is running
    catchFailed,          \* the catch block's own write threw
    lastStored,           \* history: the status of the last record written
    prior,                \* the record found under the task's id before the upload
    lookup,               \* the response of the last status or result lookup
    now,                  \* the time, in seconds
    createdAt,            \* created_at of the task
    expiresAt,            \* when the KV entry of the task expires
    expired,              \* history: the KV entry has expired
    tasks,                \* several uploads: the KV namespace TASKS, key -> record
    inFlight,             \* several uploads: the task ids whose record was created
    updating,             \* several uploads: the updateStatus call of each task
    issued,               \* several uploads: updateStatus calls each task started
    caught,               \* several uploads: an error thrown in the try or catch block
    ppc,                  \* push handler: position
    stage,                \* push handler: index of the current step
    sse,                  \* push handler: events written to the stream
    encoded,              \* push handler: length of generatedImageBase64
    offset,               \* push handler: offset of the chunk loop
    writer,               \* push handler: state of the stream writer
    closeCalls,           \* push handler: writer.close() calls made
    pushError,            \* push handler: err.message of the caught error
    reviewText,           \* push handler: answer of the result review
    ossUrls,              \* push handler: what the uploadToOSS calls returned
    consumed,             \* push consumer: events dispatched
    clientResult,         \* push consumer: result
    clientSteps,          \* push consumer: steps
    alerted,              \* push consumer: alert(...) was shown
    isProcessing,         \* push consumer: isProcessing
    emitted,              \* event stream: the events sendEvent was called with
    wire,                 \* event stream: bytes written and not yet read
    held,                 \* event stream: bytes the TextDecoder holds back
    buffer,               \* event stream: buffer of the read loop
    dispatched,           \* event stream: (eventType, data) pairs dispatched
    polling,              \* chained poller: position of pollStatus
    pollCount,            \* chained poller: pollCount
    shown,                \* chained poller: status
    statusRequests,       \* chained poller, history: status requests issued
    pollsInFlight,        \* chained poller, history: status requests not yet answered
    interval,             \* interval poller: the timer set by setInterval
    served,               \* interval poller: status of the task at the server
    requests,             \* interval poller: the status requests in flight
    displayed,            \* interval poller: status
    sawTerminal,          \* interval poller, history: a terminal status was delivered
    resultFetches         \* interval poller, history: fetchResult calls

vars ==
    <<variant, maxRetries, skipReview, pc, call, store, ossOriginal, ossGenerated,
      response, analysisJson, attempt, lastGeneratedBuffer, lastReview, result,
      genCalls, reviewCalls, lastGenOut, lastRevOut, events, eventReview, error,
      handling,
      catchFailed, lastStored, prior, lookup, now, createdAt, expiresAt, expired,
      tasks, inFlight, updating, issued, caught,
      ppc, stage, sse, encoded, offset, writer, closeCalls, pushError, reviewText,
      ossUrls, consumed, clientResult, clientSteps, alerted, isProcessing,
      emitted, wire, held, buffer, dispatched,
      polling, pollCount, shown, statusRequests, pollsInFlight,
      interval, served, requests, displayed, sawTerminal, resultFetches>>

config == <<variant, maxRetries, skipReview>>
loopLocals == <<attempt, lastGeneratedBuffer, lastReview, result>>
history == <<genCalls, reviewCalls, lastGenOut, lastRevOut, events, eventReview>>
failure == <<error, handling, catchFailed>>
objects == <<ossOriginal, ossGenerated>>
service == <<prior, lookup>>
clock == <<now, createdAt, expiresAt, expired>>
fleet == <<tasks, inFlight, updating, issued, caught>>
push ==
    <<ppc, stage, sse, encoded, offset, writer, closeCalls, pushError, reviewText,
      ossUrls>>
consumer == <<consumed, clientResult, clientSteps, alerted, isProcessing>>
framing == <<emitted, wire, held, buffer, dispatched>>

\* The state of the clients that are modelled on their own.
chained == <<polling, pollCount, shown, statusRequests, pollsInFlight>>
intervalClient ==
    <<interval, served, requests, displayed, sawTerminal, resultFetches>>
clients == <<framing, chained, intervalClient>>

\* The state of one upload and its background pipeline.
pipeline ==
    <<config, pc, call, store, objects, response, analysisJson, loopLocals,
      history, failure, lastStored, service, clock>>

----------------------------------------------------------------------------
(* Several uploads over one KV namespace: data.                             *)

\* crypto.randomUUID(): the task ids of the uploads in flight.
TaskIds == {"t1", "t2"}

\* A stored KV entry: the `id` field of the record, and the rest of the record.
KvRecord(id, task) == [id |-> id, task |-> task]

KvAbsent == KvRecord("none", NoTask)

\* Faulty variant of the key of a put: one key for every task.
SetTaskKeyShared(rec) == "t1"

\* setTask: kv.put(task.id, JSON.stringify(task), ...)
SetTaskKey(rec) == rec.id

\* getTask: kv.get(taskId, 'json')
GetTask(kv, taskId) == kv[taskId]

\* The updateStatus calls of one run of the KV pipeline, in order: ANALYZING,
\* GENERATING, the callbacks of one approved attempt, COMPLETED.
PipelineUpdates ==
    << StatusPatch(Status("ANALYZING", 0)),
       StatusPatch(Status("GENERATING", 0)),
       StatusPatch(StatusText("GENERATING", 1)),
       StatusPatch(StatusText("REVIEWING", 1)),
       CompletedPatch("kv", "feasible",
                      ApprovedResult("gemini_a", Review(TRUE, 10, AllScores(10), "model"), 1)) >>

\* issued[t] once the catch block of task t has made its write.
CatchIssued == Len(PipelineUpdates) + 1

\* An exception in the try block reaches the catch block; one in the catch
\* block is an unhandled rejection.
Thrown(c) == IF c = "none" THEN "thrown" ELSE "unhandled"

IdleUpdate == [phase |-> "idle", patch |-> StatusPatch(KeepStatus), cur |-> KvAbsent]

FleetStart ==
    /\ tasks = [k \in TaskIds |-> KvAbsent]
    /\ inFlight = {}
    /\ updating = [t \in TaskIds |-> IdleUpdate]
    /\ issued = [t \in TaskIds |-> 0]
    /\ caught = [t \in TaskIds |-> "none"]

----------------------------------------------------------------------------
(* The push (event-stream) handler and its consumer: data.                  *)

\* const CHUNK_SIZE = 5000
ChunkSize == 5000

\* Longest base64 text of a generated image that is followed.
MaxEncodedLength == 10001

Min(a, b) == IF a <= b THEN a ELSE b

\* A text value.  "slice": the characters from .. to-1 of the base64 text of
\* the generated image; "undefined": what a template literal makes of an absent
\* field; "null": no text; "garbled": text that is no part of the image.
Str(kind, from, to) == [kind |-> kind, from |-> from, to |-> to]

Undefined == Str("undefined", 0, 0)
NullText == Str("null", 0, 0)
Garbled == Str("garbled", 0, 0)

\* generatedImageBase64, of length total
EncodedImage(total) == Str("slice", 0, total)

Length(str) == IF str.kind = "slice" THEN str.to - str.from ELSE -1

\* Faulty variant of slice: the character at the end index is included.
SliceInclusive(total, start, end) ==
    Str("slice", Min(start, total), Min(end + 1, total))

\* generatedImageBase64.slice(start, end), for 0 <= start <= end
Slice(total, start, end) == Str("slice", Min(start, total), Min(end, total))

\* a + b
Concat(a, b) ==
    IF a.kind # "slice" \/ b.kind # "slice" THEN Garbled
    ELSE IF a.from = a.to THEN b
    ELSE IF b.from = b.to THEN a
    ELSE IF a.to = b.from THEN Str("slice", a.from, b.to)
    ELSE Garbled

\* a === b
SameText(a, b) ==
    /\ a.kind = b.kind
    /\ a.kind = "slice" => (a = b \/ (Length(a) = 0 /\ Length(b) = 0))

\* sendEvent(event, data): the event name and the fields of data.
SseEvent(type, id, status, chunk, message) ==
    [type |-> type, id |-> id, status |-> status, chunk |-> chunk,
     message |-> message]

StepEvent(id, status) == SseEvent("step", id, status, Undefined, "absent")
ChunkEvent(chunk) == SseEvent("image_chunk", "absent", "absent", chunk, "absent")
CompleteEvent == SseEvent("complete", "absent", "done", Undefined, "absent")
ErrorEvent(message) == SseEvent("error", "absent", "absent", Undefined, message)

\* The steps of the push handler, in order; the ids of the consumer's steps.
Stages == <<"audit", "analysis", "prompt", "generation", "review">>

StepIds == {Stages[i] : i \in 1 .. Len(Stages)}

\* part.inlineData.data of the image model's answer: lengths of a non-empty text.
GeneratedLengths ==
    {1, ChunkSize - 1, ChunkSize, ChunkSize + 1, 2 * ChunkSize, MaxEncodedLength}

\* The push handler at position, generatedImageBase64 having a length in lengths.
PushStartAt(position, lengths) ==
    /\ ppc = position
    /\ stage = 1
    /\ sse = << >>
    /\ encoded \in lengths
    /\ offset = 0
    /\ writer = "open"
    /\ closeCalls = 0
    /\ pushError = "none"
    /\ reviewText = "none"
    /\ ossUrls = << >>

\* The state of the push handler when a request arrives.
PushStart == PushStartAt("verify", {0})

ConsumerStart ==
    /\ consumed = 0
    /\ clientResult = NullText
    /\ clientSteps = [id \in StepIds |-> "pending"]
    /\ alerted = FALSE
    /\ isProcessing = TRUE

\* const decoder = new TextDecoder(); let buffer = ''; nothing written yet.
FramingStart ==
    /\ emitted = << >>
    /\ wire = << >>
    /\ held = << >>
    /\ buffer = << >>
    /\ dispatched = << >>

\* Largest number of status requests of the interval poller followed in flight
\* at once.
MaxOverlap == 2

FreeSlot == [phase |-> "free", status |-> NoStatus]

\* handleUpload: setStatus('PENDING'); pollStatus(data.task_id)
IntervalStart ==
    /\ interval = "set"
    /\ served = Status("PENDING", 0)
    /\ requests = [i \in 1 .. MaxOverlap |-> FreeSlot]
    /\ displayed = Status("PENDING", 0)
    /\ sawTerminal = FALSE
    /\ resultFetches = 0

\* handleUpload: setStatus(data.status || 'ANALYZING'); pollStatus(data.taskId)
ChainedStart ==
    /\ polling = "poll"
    /\ pollCount = 0
    /\ shown = Status("PENDING", 0)
    /\ statusRequests = 0
    /\ pollsInFlight = 0

\* The state when an upload request arrives: MAX_RETRIES is drawn from retries,
\* the record already stored under the id the upload will draw from priors.
UploadStart(retries, priors) ==
    /\ variant \in Variants
    /\ maxRetries \in IF variant = "kv" THEN retries ELSE {D1MaxRetries}
    /\ skipReview \in IF variant = "kv" THEN BOOLEAN ELSE {FALSE}
    /\ pc = "validate"
    /\ call = IdleCall
    /\ prior \in priors
    /\ store = prior
    /\ lookup = NoLookup
    /\ now = 0
    /\ createdAt = 0
    /\ expiresAt = IF prior.exists THEN ExpirationTtl ELSE 0
    /\ expired = FALSE
    /\ ossOriginal = FALSE
    /\ ossGenerated = NullImage
    /\ response = "none"
    /\ analysisJson = "absent"
    /\ attempt = 1
    /\ lastGeneratedBuffer = NullImage
    /\ lastReview = NullReview
    /\ result = NoResult
    /\ genCalls = 0
    /\ reviewCalls = 0
    /\ lastGenOut = NullImage
    /\ lastRevOut = NullReview
    /\ events = << >>
    /\ eventReview = NullReview
    /\ error = "none"
    /\ handling = FALSE
    /\ catchFailed = FALSE
    /\ lastStored = NoStatus
    /\ FleetStart
    /\ ConsumerStart
    /\ FramingStart
    /\ ChainedStart
    /\ IntervalStart

\* An upload request arrives, no push request being served.
Start(retries, priors) == UploadStart(retries, priors) /\ PushStart

Init == Start({ConfiguredMaxRetries(env) : env \in MaxRetriesSettings}, {NoTask})

\* An exception inside the background try block reaches its catch block; one
\* thrown by the catch block itself is an unhandled rejection of the promise
\* given to waitUntil.
Throw(msg) ==
    /\ call' = IdleCall
    /\ IF handling
       THEN /\ pc' = "done"
            /\ catchFailed' = TRUE
            /\ UNCHANGED <<error, handling>>
       ELSE /\ pc' = "catch"
            /\ error' = msg
            /\ UNCHANGED <<handling, catchFailed>>

\* Faulty variant of a failing generateImage call: the loop catches the error
\* and goes on to the next attempt.
GenerateImageThrowsSwallowed ==
    /\ pc' = "next_attempt"
    /\ UNCHANGED <<call, failure>>

\* generateWithReview has no try around `await this.generateImage(...)`: the
\* error of the fallback's fetch leaves the loop.
GenerateImageThrows == Throw("Failed to fetch image from Pollinations.ai")

----------------------------------------------------------------------------
(* The task store.                                                          *)

\* updateStatus / catch block: const currentTask = await getTask(kv, taskId)
UpdateStatusGet ==
    /\ call.phase = "get"
    /\ \/ /\ call' = [call EXCEPT !.phase = "put", !.cur = store]
          /\ UNCHANGED <<pc, failure>>
       \/ Throw("KV get failed")
    /\ UNCHANGED <<config, fleet, push, consumer, clients, service, clock, store, objects, response, analysisJson, loopLocals,
                   history, lastStored>>

\* updateStatus / catch block: if (currentTask) await setTask(kv, {...})
UpdateStatusPut ==
    /\ call.phase = "put"
    /\ \/ /\ store' = IF call.cur.exists THEN ApplyPatch(call.cur, call.patch)
                      ELSE store
          /\ lastStored' = IF call.cur.exists THEN store'.status ELSE lastStored
          /\ expiresAt' = IF call.cur.exists THEN now + ExpirationTtl ELSE expiresAt
          /\ call' = IdleCall
          /\ UNCHANGED <<pc, failure>>
       \/ /\ call.cur.exists
          /\ Throw("KV put failed")
          /\ UNCHANGED <<store, lastStored, expiresAt>>
    /\ UNCHANGED <<config, fleet, push, consumer, clients, service, now, createdAt, expired, objects, response,
                   analysisJson, loopLocals, history>>

\* c.env.DB.prepare(`UPDATE tasks SET ... WHERE id = ?`).bind(...).run()
D1Update ==
    /\ call.phase = "run"
    /\ \/ /\ CheckConstraintHolds(call.patch)
          /\ store' = ApplyPatch(store, call.patch)
          /\ lastStored' = store'.status
          /\ call' = IdleCall
          /\ UNCHANGED <<pc, failure>>
       \/ /\ ~CheckConstraintHolds(call.patch)
          /\ Throw("CHECK constraint failed")
          /\ UNCHANGED <<store, lastStored>>
       \/ /\ Throw("D1 error")
          /\ UNCHANGED <<store, lastStored>>
    /\ UNCHANGED <<config, fleet, push, consumer, clients, service, clock, objects, response, analysisJson,
                   loopLocals, history>>

\* The KV entry's expirationTtl runs out: time passes until the entry's expiry,
\* and the entry is gone.
KvExpire ==
    /\ variant = "kv"
    /\ store.exists
    /\ expiresAt <= MaxTime
    /\ now' = IF now < expiresAt THEN expiresAt ELSE now
    /\ store' = NoTask
    /\ expired' = TRUE
    /\ UNCHANGED <<config, fleet, push, consumer, clients, service, createdAt, expiresAt, pc, call, objects,
                   response, analysisJson, loopLocals, history, failure, lastStored>>

\* Time passes, short of the expiry of a stored KV entry.
Tick ==
    /\ now + TickSeconds <= MaxTime
    /\ (variant = "kv" /\ store.exists) => now + TickSeconds < expiresAt
    /\ now' = now + TickSeconds
    /\ UNCHANGED <<config, fleet, push, consumer, clients, service, createdAt, expiresAt, expired, pc, call, store,
                   objects, response, analysisJson, loopLocals, history, failure,
                   lastStored>>

----------------------------------------------------------------------------
(* The upload request handlers.                                             *)

\* The checks on the invite code and on the image: a rejection is the response,
\* and the handler returns.
Validate ==
    /\ pc = "validate"
    /\ \E req \in Requests :
          IF ValidateUpload(variant, req) = "ok"
          THEN /\ pc' = "request"
               /\ UNCHANGED response
          ELSE /\ response' = ValidateUpload(variant, req)
               /\ pc' = "done"
    /\ UNCHANGED <<config, fleet, push, consumer, clients, service, clock, call, store, objects, analysisJson,
                   loopLocals, history, failure, lastStored>>

\* KV handler: await oss.putObject(imagePath, imageBuffer, image.type)
KvPutOriginal ==
    /\ variant = "kv"
    /\ pc = "request"
    /\ \/ /\ ossOriginal' = TRUE
          /\ pc' = "create"
          /\ UNCHANGED response
       \/ /\ response' = "error"
          /\ pc' = "done"
          /\ UNCHANGED ossOriginal
    /\ UNCHANGED <<config, fleet, push, consumer, clients, service, clock, call, store, ossGenerated, analysisJson, loopLocals,
                   history, failure, lastStored>>

\* KV handler: await setTask(c.env.TASKS, task) with status 'ANALYZING',
\* then waitUntil(...) and the response carrying the taskId.
KvCreateTask ==
    /\ variant = "kv"
    /\ pc = "create"
    /\ \/ /\ store' = Task(Status("ANALYZING", 0), "absent", "absent", AbsentAnalysis)
          /\ lastStored' = store'.status
          /\ createdAt' = now
          /\ expiresAt' = now + ExpirationTtl
          /\ response' = CreatedResponse(variant)
          /\ pc' = "bg_start"
       \/ /\ response' = "error"
          /\ pc' = "done"
          /\ UNCHANGED <<store, lastStored, createdAt, expiresAt>>
    /\ UNCHANGED <<config, fleet, push, consumer, clients, service, now, expired, call, objects, analysisJson,
                   loopLocals, history, failure>>

\* D1 handlers: INSERT INTO tasks (...) VALUES (?, ?, ?, ?, 'PENDING'),
\* then waitUntil(...) and the response carrying the task_id.  The INSERT
\* fails on an id the table holds (id TEXT PRIMARY KEY) or on a D1 error.
D1InsertTask ==
    /\ variant \in {"d1", "legacy"}
    /\ pc = "request"
    /\ \/ /\ ~store.exists
          /\ store' = Task(Status("PENDING", 0), "absent", "absent", AbsentAnalysis)
          /\ lastStored' = store'.status
          /\ createdAt' = now
          /\ response' = CreatedResponse(variant)
          /\ pc' = "bg_start"
       \/ /\ response' = "error"
          /\ pc' = "done"
          /\ UNCHANGED <<store, lastStored, createdAt>>
    /\ UNCHANGED <<config, fleet, push, consumer, clients, service, now, expiresAt, expired, call, objects,
                   analysisJson, loopLocals, history, failure>>

----------------------------------------------------------------------------
(* The background pipelines.                                                *)

\* KV pipeline: await updateStatus('ANALYZING')
KvBgStart ==
    /\ variant = "kv"
    /\ pc = "bg_start"
    /\ call' = StartCall(variant, StatusPatch(Status("ANALYZING", 0)))
    /\ pc' = "analyze"
    /\ UNCHANGED <<config, fleet, push, consumer, clients, service, clock, store, objects, response, analysisJson, loopLocals,
                   history, failure, lastStored>>

\* D1 pipelines: upload the original image, then UPDATE status = 'ANALYZING'
D1PutOriginal ==
    /\ variant \in {"d1", "legacy"}
    /\ pc = "bg_start"
    /\ \/ /\ ossOriginal' = TRUE
          /\ call' = StartCall(variant, StatusPatch(Status("ANALYZING", 0)))
          /\ pc' = "analyze"
          /\ UNCHANGED failure
       \/ /\ Throw("Failed to upload to OSS")
          /\ UNCHANGED ossOriginal
    /\ UNCHANGED <<config, fleet, push, consumer, clients, service, clock, store, ossGenerated, response, analysisJson, loopLocals,
                   history, lastStored>>

\* ai.analyzeImage and the JSON.parse of its text; then the KV pipeline writes
\* 'GENERATING', the D1 pipelines write analysis_result.
Analyze ==
    /\ pc = "analyze"
    /\ call.phase = "idle"
    /\ \/ \E text \in AnalysisTexts :
            /\ analysisJson' = ParseAnalysis(variant, text)
            /\ IF variant = "kv"
               THEN /\ call' = StartCall(variant, StatusPatch(Status("GENERATING", 0)))
                    /\ pc' = "loop_head"
               ELSE /\ call' = StartCall(variant,
                                  Patch(KeepStatus, "keep", "keep",
                                        AnalysisResult(analysisJson', NullReview, -1,
                                                       "absent")))
                    /\ pc' = "feasibility"
            /\ UNCHANGED failure
       \/ /\ Throw("analysis failed")
          /\ UNCHANGED analysisJson
    /\ UNCHANGED <<config, fleet, push, consumer, clients, service, clock, store, objects, response,
                   loopLocals, history, lastStored>>

\* Faulty variant of the feasibility branch: the return after the FAILED update
\* is missing and the pipeline goes on.
FeasibilityFallsThrough ==
    /\ variant \in {"d1", "legacy"}
    /\ pc = "feasibility"
    /\ call.phase = "idle"
    /\ call' = StartCall(variant,
                         IF IsInfeasible(analysisJson)
                         THEN InfeasiblePatch(variant, analysisJson)
                         ELSE StatusPatch(Status("GENERATING", 0)))
    /\ pc' = IF variant = "d1" THEN "loop_head" ELSE "legacy_generate"
    /\ UNCHANGED <<config, fleet, push, consumer, clients, service, clock, store, objects, response, analysisJson, loopLocals,
                   history, failure, lastStored>>

\* D1 pipelines: if (analysisJson.is_feasible === false) { FAILED; return }
\* else UPDATE status = 'GENERATING'
Feasibility ==
    /\ variant \in {"d1", "legacy"}
    /\ pc = "feasibility"
    /\ call.phase = "idle"
    /\ IF IsInfeasible(analysisJson)
       THEN /\ call' = StartCall(variant, InfeasiblePatch(variant, analysisJson))
            /\ pc' = "done"
       ELSE /\ call' = StartCall(variant, StatusPatch(Status("GENERATING", 0)))
            /\ pc' = IF variant = "d1" THEN "loop_head" ELSE "legacy_generate"
    /\ UNCHANGED <<config, fleet, push, consumer, clients, service, clock, store, objects, response, analysisJson, loopLocals,
                   history, failure, lastStored>>

\* Older D1 pipeline: const generatedImageBuffer = await ai.generateImage(prompt)
LegacyGenerate ==
    /\ variant = "legacy"
    /\ pc = "legacy_generate"
    /\ call.phase = "idle"
    /\ genCalls' = genCalls + 1
    /\ \/ \E img \in GenerateOutcomes :
            /\ lastGenOut' = img
            /\ lastGeneratedBuffer' = img
            /\ pc' = "put_generated"
            /\ UNCHANGED <<call, failure>>
       \/ /\ Throw("generation failed")
          /\ lastGenOut' = GenerateThrew
          /\ UNCHANGED lastGeneratedBuffer
    /\ UNCHANGED <<config, fleet, push, consumer, clients, service, clock, store, objects, response, analysisJson, attempt,
                   lastReview, result, reviewCalls, lastRevOut, events, eventReview,
                   lastStored>>

----------------------------------------------------------------------------
(* AIService.generateWithReview.                                            *)

\* Faulty variant of the progress callback: it stores the generated-image
\* reference along with the status.
OnStatusUpdateWithPath(v, status, a) ==
    StartCall(v, Patch(StatusText(status, a), "keep", "generated.jpg", KeepAnalysis))

\* Faulty variant of the REGENERATING callback: the verdict is not passed.
RegeneratingReviewOmitted(review) == NullReview

\* await onStatusUpdate('REGENERATING', attempt, review): the review passed.
RegeneratingReview(review) == review

\* await onStatusUpdate(status, attempt, review): both handlers write the
\* attempt-qualified status to the task store.
OnStatusUpdate(v, status, a) == StartCall(v, StatusPatch(StatusText(status, a)))

\* Loop head: the for condition; then onStatusUpdate('GENERATING', attempt),
\* or, the attempts used up, the return of the last image and review.
LoopHead ==
    /\ variant \in {"kv", "d1"}
    /\ pc = "loop_head"
    /\ call.phase = "idle"
    /\ IF LoopCondition(attempt, maxRetries)
       THEN /\ events' = Append(events, Event("GENERATING", attempt))
            /\ eventReview' = NullReview
            /\ call' = OnStatusUpdate(variant, "GENERATING", attempt)
            /\ pc' = "generate"
            /\ UNCHANGED result
       ELSE /\ result' = ExhaustedResult(lastGeneratedBuffer, lastReview, maxRetries)
            /\ pc' = "after_loop"
            /\ UNCHANGED <<events, eventReview, call>>
    /\ UNCHANGED <<config, fleet, push, consumer, clients, service, clock, store, objects, response, analysisJson, attempt,
                   lastGeneratedBuffer, lastReview, genCalls, reviewCalls,
                   lastGenOut, lastRevOut, failure, lastStored>>

\* const generatedBuffer = await this.generateImage(prompt, originalImageBuffer);
\* then the skipReview return, or onStatusUpdate('REVIEWING', attempt).
Generate ==
    /\ pc = "generate"
    /\ call.phase = "idle"
    /\ genCalls' = genCalls + 1
    /\ \/ \E img \in GenerateOutcomes :
            /\ lastGenOut' = img
            /\ lastGeneratedBuffer' = img
            /\ IF skipReview
               THEN /\ result' = SkipReviewResult(img, attempt)
                    /\ pc' = "after_loop"
                    /\ UNCHANGED <<events, eventReview, call>>
               ELSE /\ events' = Append(events, Event("REVIEWING", attempt))
                    /\ eventReview' = NullReview
                    /\ call' = OnStatusUpdate(variant, "REVIEWING", attempt)
                    /\ pc' = "review"
                    /\ UNCHANGED result
            /\ UNCHANGED failure
       \/ /\ GenerateImageThrows
          /\ lastGenOut' = GenerateThrew
          /\ UNCHANGED <<lastGeneratedBuffer, result, events, eventReview>>
    /\ UNCHANGED <<config, fleet, push, consumer, clients, service, clock, store, objects, response, analysisJson, attempt,
                   lastReview, reviewCalls, lastRevOut, lastStored>>

\* const review = await this.reviewGeneratedImage(...); then the return on
\* approval, or onStatusUpdate('REGENERATING', attempt, review).
ReviewCandidate ==
    /\ pc = "review"
    /\ call.phase = "idle"
    /\ reviewCalls' = reviewCalls + 1
    /\ \E review \in ReviewOutcomes :
         /\ lastRevOut' = review
         /\ lastReview' = review
         /\ IF IsApproved(review)
            THEN /\ result' = ApprovedResult(lastGeneratedBuffer, review, attempt)
                 /\ pc' = "after_loop"
                 /\ UNCHANGED <<events, eventReview, call>>
            ELSE /\ events' = Append(events, Event("REGENERATING", attempt))
                 /\ eventReview' = RegeneratingReview(review)
                 /\ call' = OnStatusUpdate(variant, "REGENERATING", attempt)
                 /\ pc' = "next_attempt"
                 /\ UNCHANGED result
    /\ UNCHANGED <<config, fleet, push, consumer, clients, service, clock, store, objects, response, analysisJson, attempt,
                   lastGeneratedBuffer, genCalls, lastGenOut, failure, lastStored>>

\* attempt++
NextAttempt ==
    /\ pc = "next_attempt"
    /\ call.phase = "idle"
    /\ attempt' = attempt + 1
    /\ pc' = "loop_head"
    /\ UNCHANGED <<config, fleet, push, consumer, clients, service, clock, call, store, objects, response, analysisJson,
                   lastGeneratedBuffer, lastReview, result, history, failure,
                   lastStored>>

----------------------------------------------------------------------------
(* After the loop.                                                          *)

\* KV pipeline: the null and 0-byte checks of the generated buffer.
ValidateGenerated ==
    /\ pc = "after_loop"
    /\ IF variant = "kv" /\ result.imageBuffer = NullImage
       THEN Throw("Generated image buffer is null")
       ELSE IF variant = "kv" /\ ByteLength(result.imageBuffer) = 0
       THEN Throw("Generated image buffer is empty (0 bytes)")
       ELSE /\ pc' = "put_generated"
            /\ UNCHANGED <<call, failure>>
    /\ UNCHANGED <<config, fleet, push, consumer, clients, service, clock, store, objects, response, analysisJson, loopLocals,
                   history, lastStored>>

\* The buffer handed to the upload of the generated image.
GeneratedBuffer == IF variant = "legacy" THEN lastGeneratedBuffer ELSE result.imageBuffer

\* await oss.putObject(generatedPath, generatedImageBuffer, 'image/jpeg'),
\* then the COMPLETED write.
PutGenerated ==
    /\ pc = "put_generated"
    /\ call.phase = "idle"
    /\ \/ /\ ossGenerated' = GeneratedBuffer
          /\ call' = StartCall(variant, CompletedPatch(variant, analysisJson, result))
          /\ pc' = "done"
          /\ UNCHANGED failure
       \/ /\ Throw("Failed to upload to OSS")
          /\ UNCHANGED ossGenerated
    /\ UNCHANGED <<config, fleet, push, consumer, clients, service, clock, store, ossOriginal, response, analysisJson, loopLocals,
                   history, lastStored>>

\* catch (error) { ... status: 'FAILED' ... }
CatchBlock ==
    /\ pc = "catch"
    /\ handling' = TRUE
    /\ call' = StartCall(variant, FailedPatch(variant, error))
    /\ pc' = "done"
    /\ UNCHANGED <<config, fleet, push, consumer, clients, service, clock, store, objects, response, analysisJson, loopLocals,
                   history, error, catchFailed, lastStored>>

----------------------------------------------------------------------------

Next ==
    \/ Validate
    \/ KvPutOriginal
    \/ KvCreateTask
    \/ D1InsertTask
    \/ KvBgStart
    \/ D1PutOriginal
    \/ Analyze
    \/ Feasibility
    \/ LegacyGenerate
    \/ LoopHead
    \/ Generate
    \/ ReviewCandidate
    \/ NextAttempt
    \/ ValidateGenerated
    \/ PutGenerated
    \/ CatchBlock
    \/ UpdateStatusGet
    \/ UpdateStatusPut
    \/ D1Update
    \/ KvExpire

Spec == Init /\ [][Next]_vars

----------------------------------------------------------------------------
(* The service as its clients see it: the pipeline, the clock, and the     *)
(* lookups of the task's id.                                                *)

\* oss.getObject(path) / oss.getSignedUrl(path) of a stored generated image
GetObject(path) == IF path = "prior/generated.jpg" THEN PriorImage ELSE ossGenerated

\* app.get('/status/:taskId')
GetStatus ==
    /\ lookup' = StatusLookup(variant, store)
    /\ UNCHANGED <<config, fleet, push, consumer, clients, prior, clock, pc, call, store, objects, response,
                   analysisJson, loopLocals, history, failure, lastStored>>

\* app.get('/result/:taskId'): the fetch of the image from the object store
\* succeeds or fails; the older D1 handler signs a URL and fetches nothing.
GetResult ==
    /\ \E fetched \in BOOLEAN :
          lookup' = ResultLookup(variant, store,
                                 IF fetched \/ variant = "legacy"
                                 THEN GetObject(store.generated_image_path)
                                 ELSE NullImage)
    /\ UNCHANGED <<config, fleet, push, consumer, clients, prior, clock, pc, call, store, objects, response,
                   analysisJson, loopLocals, history, failure, lastStored>>

\* The pipeline with lookups at any moment, the id being fresh or already
\* held by the record of an earlier upload.
LookupInit == Start({DefaultMaxRetries}, {NoTask, PriorTask})

LookupNext ==
    \/ Next
    \/ GetStatus
    \/ GetResult

LookupSpec == LookupInit /\ [][LookupNext]_vars

\* The pipeline with time passing between its steps.
TtlInit == Start({DefaultMaxRetries}, {NoTask})

TtlNext ==
    \/ Next
    \/ Tick

TtlSpec == TtlInit /\ [][TtlNext]_vars

\* The pipeline and every write it started have ended.
Done == pc = "done" /\ call.phase = "idle"

----------------------------------------------------------------------------
(* Several uploads over one KV namespace: each upload creates its record,   *)
(* then its pipeline makes its updateStatus calls one after the other; the  *)
(* reads and writes of different pipelines interleave.                      *)

\* app.post('/upload'): await setTask(c.env.TASKS, task) with a fresh taskId
FleetCreate(t) ==
    /\ t \notin inFlight
    /\ LET rec == KvRecord(t, Task(Status("ANALYZING", 0), "absent", "absent",
                                   AbsentAnalysis))
       IN tasks' = [tasks EXCEPT ![SetTaskKey(rec)] = rec]
    /\ inFlight' = inFlight \cup {t}
    /\ UNCHANGED <<updating, issued, caught>>
    /\ UNCHANGED <<pipeline, push, consumer, clients>>

\* The pipeline of task t calls updateStatus for its next status.
FleetIssue(t) ==
    /\ t \in inFlight
    /\ caught[t] = "none"
    /\ updating[t].phase = "idle"
    /\ issued[t] < Len(PipelineUpdates)
    /\ issued' = [issued EXCEPT ![t] = @ + 1]
    /\ updating' = [updating EXCEPT ![t] =
                       [phase |-> "get", patch |-> PipelineUpdates[issued[t] + 1],
                        cur |-> KvAbsent]]
    /\ UNCHANGED <<tasks, inFlight, caught>>
    /\ UNCHANGED <<pipeline, push, consumer, clients>>

\* The catch block of the pipeline of task t: getTask, then setTask FAILED.
FleetCatch(t) ==
    /\ caught[t] = "thrown"
    /\ updating[t].phase = "idle"
    /\ issued[t] < CatchIssued
    /\ issued' = [issued EXCEPT ![t] = CatchIssued]
    /\ updating' = [updating EXCEPT ![t] =
                       [phase |-> "get", patch |-> FailedPatch("kv", "KV put failed"),
                        cur |-> KvAbsent]]
    /\ UNCHANGED <<tasks, inFlight, caught>>
    /\ UNCHANGED <<pipeline, push, consumer, clients>>

\* const currentTask = await getTask(c.env.TASKS, taskId)
FleetGet(t) ==
    /\ updating[t].phase = "get"
    /\ \/ /\ updating' = [updating EXCEPT ![t].phase = "put",
                                          ![t].cur = GetTask(tasks, t)]
          /\ UNCHANGED caught
       \/ /\ updating' = [updating EXCEPT ![t] = IdleUpdate]
          /\ caught' = [caught EXCEPT ![t] = Thrown(@)]
    /\ UNCHANGED <<tasks, inFlight, issued>>
    /\ UNCHANGED <<pipeline, push, consumer, clients>>

\* if (currentTask) await setTask(c.env.TASKS, { ...currentTask, status, ...extra })
FleetPut(t) ==
    /\ updating[t].phase = "put"
    /\ LET cur == updating[t].cur
           rec == KvRecord(cur.id, ApplyPatch(cur.task, updating[t].patch))
       IN \/ /\ tasks' = IF cur.task.exists
                         THEN [tasks EXCEPT ![SetTaskKey(rec)] = rec]
                         ELSE tasks
             /\ UNCHANGED caught
          \/ /\ cur.task.exists
             /\ caught' = [caught EXCEPT ![t] = Thrown(@)]
             /\ UNCHANGED tasks
    /\ updating' = [updating EXCEPT ![t] = IdleUpdate]
    /\ UNCHANGED <<inFlight, issued>>
    /\ UNCHANGED <<pipeline, push, consumer, clients>>

\* The expirationTtl of the entry under key k runs out.
FleetExpire(k) ==
    /\ tasks[k].task.exists
    /\ tasks' = [tasks EXCEPT ![k] = KvAbsent]
    /\ UNCHANGED <<inFlight, updating, issued, caught>>
    /\ UNCHANGED <<pipeline, push, consumer, clients>>

FleetInit == Start({DefaultMaxRetries}, {NoTask}) /\ variant = "kv" /\ ~skipReview

FleetNext ==
    \E t \in TaskIds :
        \/ FleetCreate(t)
        \/ FleetIssue(t)
        \/ FleetCatch(t)
        \/ FleetGet(t)
        \/ FleetPut(t)
        \/ FleetExpire(t)

FleetSpec == FleetInit /\ [][FleetNext]_vars

----------------------------------------------------------------------------
(* The push (event-stream) handler: onRequestPost of process-image.         *)

\* What the handler reads of a request: whether the body is JSON, whether
\* body.inviteCode === env.INVITE_CODE, whether body.image is non-empty.
PushRequests == [json : BOOLEAN, codeMatches : BOOLEAN, hasImage : BOOLEAN]

\* The answers of the text model to an audit or review prompt.
AnswerTexts == {"PASS", "pass, a clear portrait", "FAIL: no person", ""}

\* text.toUpperCase().startsWith("PASS")
StartsWithPass(text) == text \in {"PASS", "pass, a clear portrait"}

\* An exception inside the try block: control goes to the catch block.
PushThrow(msg) ==
    /\ ppc' = "catch"
    /\ pushError' = msg
    /\ UNCHANGED <<stage, sse, writer, closeCalls>>

\* Faulty variant of a rejection: the error event is sent and the handler goes
\* on with its steps.
PushRejectContinues(msg) ==
    /\ sse' = Append(sse, ErrorEvent(msg))
    /\ ppc' = "step"
    /\ UNCHANGED <<stage, writer, closeCalls, pushError>>

\* await sendEvent('error', { message }); await writer.close(); return;
\* the return runs the finally block.
PushReject(msg) ==
    /\ sse' = Append(sse, ErrorEvent(msg))
    /\ writer' = "closed"
    /\ closeCalls' = closeCalls + 1
    /\ ppc' = "finally"
    /\ UNCHANGED <<stage, pushError>>

\* await sendEvent('step', { id, status: 'completed' }), then the next step, or
\* after the last step the uploads.
StepCompleted ==
    /\ sse' = Append(sse, StepEvent(Stages[stage], "completed"))
    /\ stage' = IF stage < Len(Stages) THEN stage + 1 ELSE stage
    /\ ppc' = IF stage < Len(Stages) THEN "step" ELSE "upload"
    /\ UNCHANGED <<writer, closeCalls, pushError>>

\* const body = await request.json(); the invite code and image checks.
PushVerify ==
    /\ ppc = "verify"
    /\ \E req \in PushRequests :
          IF ~req.json THEN PushThrow("Unexpected end of JSON input")
          ELSE IF ~req.codeMatches THEN PushReject("Invalid invite code")
          ELSE IF ~req.hasImage THEN PushReject("No image provided")
          ELSE /\ ppc' = "step"
               /\ UNCHANGED <<stage, sse, writer, closeCalls, pushError>>
    /\ UNCHANGED <<encoded, offset, reviewText, ossUrls>>
    /\ UNCHANGED <<pipeline, fleet, consumer, clients>>

\* await sendEvent('step', { id, status: 'processing' })
PushStepProcessing ==
    /\ ppc = "step"
    /\ sse' = Append(sse, StepEvent(Stages[stage], "processing"))
    /\ ppc' = "call"
    /\ UNCHANGED <<stage, encoded, offset, writer, closeCalls, pushError, reviewText,
                   ossUrls>>
    /\ UNCHANGED <<pipeline, fleet, consumer, clients>>

\* 2. Audit Image: the model's answer, or the fallback call's when the first
\* call threw; an answer that does not start with PASS ends the stream.
PushAudit ==
    /\ ppc = "call" /\ Stages[stage] = "audit"
    /\ \E primary \in AnswerTexts \cup {"threw"}, fallback \in AnswerTexts \cup {"threw"} :
          LET auditText == IF primary # "threw" THEN primary ELSE fallback
          IN IF auditText = "threw" THEN PushThrow("audit call failed")
             ELSE IF ~StartsWithPass(auditText) THEN PushReject("Image audit failed")
             ELSE StepCompleted
    /\ UNCHANGED <<encoded, offset, reviewText, ossUrls>>
    /\ UNCHANGED <<pipeline, fleet, consumer, clients>>

\* 3. Analyze Image
PushAnalysis ==
    /\ ppc = "call" /\ Stages[stage] = "analysis"
    /\ \/ StepCompleted
       \/ PushThrow("analysis call failed")
    /\ UNCHANGED <<encoded, offset, reviewText, ossUrls>>
    /\ UNCHANGED <<pipeline, fleet, consumer, clients>>

\* 4. Generate Prompt
PushPrompt ==
    /\ ppc = "call" /\ Stages[stage] = "prompt"
    /\ \/ StepCompleted
       \/ PushThrow("prompt call failed")
    /\ UNCHANGED <<encoded, offset, reviewText, ossUrls>>
    /\ UNCHANGED <<pipeline, fleet, consumer, clients>>

\* 5. Generate Image: part.inlineData.data, or the throw when there is none.
PushGeneration ==
    /\ ppc = "call" /\ Stages[stage] = "generation"
    /\ \/ \E n \in GeneratedLengths :
             /\ encoded' = n
             /\ StepCompleted
       \/ /\ PushThrow("No image data found in response")
          /\ UNCHANGED encoded
       \/ /\ PushThrow("image call failed")
          /\ UNCHANGED encoded
    /\ UNCHANGED <<offset, reviewText, ossUrls>>
    /\ UNCHANGED <<pipeline, fleet, consumer, clients>>

\* Faulty variant of the review step: an answer that does not start with PASS
\* sends the handler back to the generation step.
PushReviewRegenerates ==
    /\ ppc = "call" /\ Stages[stage] = "review"
    /\ \/ \E text \in AnswerTexts :
             /\ reviewText' = text
             /\ IF StartsWithPass(text) THEN StepCompleted
                ELSE /\ stage' = stage - 1
                     /\ ppc' = "step"
                     /\ UNCHANGED <<sse, writer, closeCalls, pushError>>
       \/ /\ PushThrow("review call failed")
          /\ UNCHANGED reviewText
    /\ UNCHANGED <<encoded, offset, ossUrls>>
    /\ UNCHANGED <<pipeline, fleet, consumer, clients>>

\* 6. Review Image: an answer that does not start with PASS is logged only.
PushReview ==
    /\ ppc = "call" /\ Stages[stage] = "review"
    /\ \/ \E text \in AnswerTexts :
             /\ reviewText' = text
             /\ StepCompleted
       \/ /\ PushThrow("review call failed")
          /\ UNCHANGED reviewText
    /\ UNCHANGED <<encoded, offset, ossUrls>>
    /\ UNCHANGED <<pipeline, fleet, consumer, clients>>

\* uploadToOSS: the URL, or null on a failed PUT or any exception; never throws.
UploadToOSS == {"url", "null"}

\* 7. Upload to OSS: original.jpg, then generated.png; then the chunk loop starts.
PushUpload ==
    /\ ppc = "upload"
    /\ \E original \in UploadToOSS, generated \in UploadToOSS :
          ossUrls' = <<original, generated>>
    /\ offset' = 0
    /\ ppc' = "chunks"
    /\ UNCHANGED <<stage, sse, encoded, writer, closeCalls, pushError, reviewText>>
    /\ UNCHANGED <<pipeline, fleet, consumer, clients>>

\* while (offset < totalLength) { sendEvent('image_chunk', { chunk }); offset += CHUNK_SIZE }
PushChunk ==
    /\ ppc = "chunks"
    /\ offset < encoded
    /\ sse' = Append(sse, ChunkEvent(Slice(encoded, offset, offset + ChunkSize)))
    /\ offset' = offset + ChunkSize
    /\ UNCHANGED <<ppc, stage, encoded, writer, closeCalls, pushError, reviewText,
                   ossUrls>>
    /\ UNCHANGED <<pipeline, fleet, consumer, clients>>

\* await sendEvent('complete', { status: 'done' })
PushComplete ==
    /\ ppc = "chunks"
    /\ ~(offset < encoded)
    /\ sse' = Append(sse, CompleteEvent)
    /\ ppc' = "finally"
    /\ UNCHANGED <<stage, encoded, offset, writer, closeCalls, pushError, reviewText,
                   ossUrls>>
    /\ UNCHANGED <<pipeline, fleet, consumer, clients>>

\* catch (err) { await sendEvent('error', { message: err.message }) }
PushCatch ==
    /\ ppc = "catch"
    /\ sse' = Append(sse, ErrorEvent(pushError))
    /\ ppc' = "finally"
    /\ UNCHANGED <<stage, encoded, offset, writer, closeCalls, pushError, reviewText,
                   ossUrls>>
    /\ UNCHANGED <<pipeline, fleet, consumer, clients>>

\* finally { await writer.close() }
PushFinally ==
    /\ ppc = "finally"
    /\ writer' = "closed"
    /\ closeCalls' = closeCalls + 1
    /\ ppc' = "done"
    /\ UNCHANGED <<stage, sse, encoded, offset, pushError, reviewText, ossUrls>>
    /\ UNCHANGED <<pipeline, fleet, consumer, clients>>

----------------------------------------------------------------------------
(* The push consumer: MainPage.processImage.                                *)

\* data.name of a parsed event: undefined when the data has no such field.
Field(ev, name) == IF name \in DOMAIN ev THEN ev[name] ELSE Undefined

\* The dispatch of one event read from the stream.
ConsumeEvent ==
    /\ isProcessing
    /\ consumed < Len(sse)
    /\ consumed' = consumed + 1
    /\ LET ev == sse[consumed + 1]
       IN CASE ev.type = "step" ->
                 /\ clientSteps' = [id \in StepIds |->
                                       IF id = ev.id THEN ev.status ELSE clientSteps[id]]
                 /\ UNCHANGED clientResult
            [] ev.type = "complete" ->
                 /\ clientResult' = Field(ev, "result")
                 /\ clientSteps' = [id \in StepIds |-> "completed"]
            [] OTHER ->
                 UNCHANGED <<clientResult, clientSteps>>
    /\ UNCHANGED <<alerted, isProcessing>>
    /\ UNCHANGED <<pipeline, fleet, push, clients>>

\* reader.read() returns done: the loop ends; finally setIsProcessing(false).
ConsumerEnd ==
    /\ isProcessing
    /\ writer = "closed"
    /\ consumed = Len(sse)
    /\ isProcessing' = FALSE
    /\ UNCHANGED <<consumed, clientResult, clientSteps, alerted>>
    /\ UNCHANGED <<pipeline, fleet, push, clients>>

\* reader.read() rejects (the connection broke): the outer catch alerts and
\* marks the steps in progress failed.
ConsumerReadFails ==
    /\ isProcessing
    /\ alerted' = TRUE
    /\ clientSteps' = [id \in StepIds |->
                          IF clientSteps[id] = "processing" THEN "failed"
                          ELSE clientSteps[id]]
    /\ isProcessing' = FALSE
    /\ UNCHANGED <<consumed, clientResult>>
    /\ UNCHANGED <<pipeline, fleet, push, clients>>

PushInit == Start({DefaultMaxRetries}, {NoTask}) /\ variant = "kv" /\ ~skipReview

PushNext ==
    \/ PushVerify
    \/ PushStepProcessing
    \/ PushAudit
    \/ PushAnalysis
    \/ PushPrompt
    \/ PushGeneration
    \/ PushReview
    \/ PushUpload
    \/ PushChunk
    \/ PushComplete
    \/ PushCatch
    \/ PushFinally
    \/ ConsumeEvent
    \/ ConsumerEnd
    \/ ConsumerReadFails

PushSpec == PushInit /\ [][PushNext]_vars

\* The chunk loop on its own, for every length of generatedImageBase64.
ChunkInit ==
    /\ UploadStart({DefaultMaxRetries}, {NoTask})
    /\ variant = "kv" /\ ~skipReview
    /\ PushStartAt("chunks", 0 .. MaxEncodedLength)

ChunkNext ==
    \/ PushChunk
    \/ PushComplete
    \/ PushFinally

ChunkSpec == ChunkInit /\ [][ChunkNext]_vars

----------------------------------------------------------------------------
(* The bytes of the event stream: sendEvent of the push handler, and the    *)
(* read loop of MainPage.processImage that frames them into events.  A text *)
(* is a sequence of units; a unit is a byte of the stream or, after         *)
(* decoding, a character.                                                   *)

\* Largest number of events followed on one stream.
MaxFrames == 3

NoEvent == [type |-> "none"]

Unit(kind, ev) == [kind |-> kind, of |-> ev]

\* '\n'
LF == Unit("LF", NoEvent)

\* The character a decoder puts in the place of a malformed byte sequence.
ReplacementChar == Unit("U+FFFD", NoEvent)

\* Events sent on a stream; the message of an error event quotes the model's
\* answer, which holds characters of more than one byte.
FrameEvents ==
    {StepEvent("audit", "processing"), ErrorEvent("Image audit failed"),
     ChunkEvent(Str("slice", 0, 1)), CompleteEvent}

\* JSON.stringify(data): line feeds inside the data are escaped; the text of an
\* error event holds one two-byte character.
Stringify(ev) ==
    IF ev.type = "error"
    THEN <<Unit("json", ev), Unit("char", ev), Unit("json end", ev)>>
    ELSE <<Unit("json", ev), Unit("json end", ev)>>

\* TextEncoder.encode: a two-byte character becomes a lead and a trail byte.
RECURSIVE EncodeText(_)
EncodeText(text) ==
    IF text = << >> THEN << >>
    ELSE (IF Head(text).kind = "char"
          THEN <<Unit("lead", Head(text).of), Unit("trail", Head(text).of)>>
          ELSE <<Head(text)>>)
         \o EncodeText(Tail(text))

\* encoder.encode(`event: ${event}\ndata: ${JSON.stringify(data)}\n\n`)
Encode(ev) ==
    EncodeText(<<Unit("event: ", NoEvent), Unit("type", ev), LF,
                 Unit("data: ", NoEvent)>> \o Stringify(ev) \o <<LF, LF>>)

\* The characters of a byte sequence: a lead byte with its trail byte is one
\* character; a lead or trail byte on its own is malformed.
RECURSIVE Characters(_)
Characters(bytes) ==
    IF bytes = << >> THEN << >>
    ELSE IF Head(bytes).kind = "lead" /\ Len(bytes) >= 2 /\ bytes[2].kind = "trail"
    THEN <<Unit("char", Head(bytes).of)>> \o Characters(Tail(Tail(bytes)))
    ELSE IF Head(bytes).kind \in {"lead", "trail"}
    THEN <<ReplacementChar>> \o Characters(Tail(bytes))
    ELSE <<Head(bytes)>> \o Characters(Tail(bytes))

\* Faulty variant of the decoder call: without { stream: true } an incomplete
\* character at the end of a read is decoded at once.
DecodeEachReadAlone(pending, value) ==
    [text |-> Characters(pending \o value), held |-> << >>]

\* decoder.decode(value, { stream: true }): an incomplete character at the end
\* of the bytes is held back for the next call.
Decode(pending, value) ==
    LET bytes == pending \o value
        n == Len(bytes)
    IN IF n >= 1 /\ bytes[n].kind = "lead"
       THEN [text |-> Characters(SubSeq(bytes, 1, n - 1)), held |-> <<bytes[n]>>]
       ELSE [text |-> Characters(bytes), held |-> << >>]

\* The positions where sepLen line feeds in a row start.
Separators(text, sepLen) ==
    {i \in 1 .. Len(text) - sepLen + 1 : \A k \in 0 .. sepLen - 1 : text[i + k] = LF}

\* text.split(separator), the separator being sepLen line feeds.
RECURSIVE Split(_, _)
Split(text, sepLen) ==
    IF Separators(text, sepLen) = {} THEN <<text>>
    ELSE LET i == CHOOSE i \in Separators(text, sepLen) :
                      \A j \in Separators(text, sepLen) : i <= j
         IN <<SubSeq(text, 1, i - 1)>>
            \o Split(SubSeq(text, i + sepLen, Len(text)), sepLen)

\* text.replace(pattern, ''): the first occurrence of the pattern is removed.
RECURSIVE RemoveFirst(_, _)
RemoveFirst(text, kind) ==
    IF text = << >> THEN << >>
    ELSE IF Head(text).kind = kind THEN Tail(text)
    ELSE <<Head(text)>> \o RemoveFirst(Tail(text), kind)

\* What the dispatch receives for an event: its type and its parsed data.
Dispatch(type, data) == [type |-> type, data |-> [data EXCEPT !.type = "data"]]

\* The body of `for (const line of lines)`: the events dispatched for one line,
\* none when the line is skipped or JSON.parse throws.
DispatchLine(line) ==
    IF ~(Len(line) >= 1 /\ Head(line).kind = "event: ") THEN << >>
    ELSE LET parts == Split(line, 1)
             eventType == RemoveFirst(parts[1], "event: ")
             dataStr == IF Len(parts) >= 2 THEN RemoveFirst(parts[2], "data: ")
                        ELSE << >>
         IN IF dataStr = << >> THEN << >>
            ELSE IF \E ev \in FrameEvents : dataStr = Stringify(ev)
            THEN LET data == CHOOSE ev \in FrameEvents : dataStr = Stringify(ev)
                 IN <<Dispatch(IF Len(eventType) = 1 /\ eventType[1].kind = "type"
                               THEN eventType[1].of.type ELSE "other", data)>>
            ELSE << >>

RECURSIVE DispatchLines(_)
DispatchLines(lines) ==
    IF lines = << >> THEN << >>
    ELSE DispatchLine(Head(lines)) \o DispatchLines(Tail(lines))

\* sendEvent: one event is encoded and written to the stream.
FrameWrite ==
    /\ Len(emitted) < MaxFrames
    /\ \E ev \in FrameEvents :
          /\ emitted' = Append(emitted, ev)
          /\ wire' = wire \o Encode(ev)
    /\ UNCHANGED <<held, buffer, dispatched>>
    /\ UNCHANGED <<pipeline, fleet, push, consumer, chained, intervalClient>>

\* One turn of the read loop: reader.read() yields some of the bytes written,
\* wherever the transport cut them; buffer += decode(value);
\* lines = buffer.split('\n\n'); buffer = lines.pop() || ''; the dispatch.
FrameRead ==
    /\ wire # << >>
    /\ \E k \in 1 .. Len(wire) :
          LET decoded == Decode(held, SubSeq(wire, 1, k))
              lines == Split(buffer \o decoded.text, 2)
          IN /\ wire' = SubSeq(wire, k + 1, Len(wire))
             /\ held' = decoded.held
             /\ buffer' = lines[Len(lines)]
             /\ dispatched' =
                   dispatched \o DispatchLines(SubSeq(lines, 1, Len(lines) - 1))
    /\ UNCHANGED emitted
    /\ UNCHANGED <<pipeline, fleet, push, consumer, chained, intervalClient>>

FrameInit == Start({DefaultMaxRetries}, {NoTask}) /\ variant = "kv" /\ ~skipReview

FrameNext ==
    \/ FrameWrite
    \/ FrameRead

FrameSpec == FrameInit /\ [][FrameNext]_vars

----------------------------------------------------------------------------
(* The polling client that chains its polls with setTimeout: pollStatus and *)
(* fetchResult of the upload page.                                          *)

\* const maxPolls = 300
MaxPolls == 300

\* Statuses a status response may carry.
PolledStatuses ==
    {Status("PENDING", 0), Status("ANALYZING", 0), Status("GENERATING", 0),
     Status("REVIEWING", 1), Status("COMPLETED", 0), Status("FAILED", 0)}

\* What a status request may end with: a 2xx answer carrying a status, the 404
\* answer with code TASK_NOT_FOUND, or anything else (another non-2xx answer, a
\* body that is not JSON, a network error), which throws.
StatusResponses ==
    [kind : {"ok"}, status : PolledStatuses]
    \cup {[kind |-> "not_found", status |-> NoStatus],
          [kind |-> "threw", status |-> NoStatus]}

\* Faulty variant of the limit test: one poll more is let through.
ExceedsMaxPollsLate(count) == count > MaxPolls + 1

\* if (pollCount > maxPolls)
ExceedsMaxPolls(count) == count > MaxPolls

\* poll(), up to its await: pollCount++, the timeout branch or the fetch.
ChainedPoll ==
    /\ polling = "poll"
    /\ pollCount' = pollCount + 1
    /\ IF ExceedsMaxPolls(pollCount')
       THEN /\ shown' = Status("FAILED", 0)
            /\ polling' = "done"
            /\ UNCHANGED <<statusRequests, pollsInFlight>>
       ELSE /\ statusRequests' = statusRequests + 1
            /\ pollsInFlight' = pollsInFlight + 1
            /\ polling' = "status"
            /\ UNCHANGED shown
    /\ UNCHANGED <<pipeline, fleet, push, consumer, framing, intervalClient>>

\* poll(), after the fetch settled: the branches on the answer and the catch.
ChainedResponse ==
    /\ polling = "status"
    /\ pollsInFlight' = pollsInFlight - 1
    /\ \E res \in StatusResponses :
          CASE res.kind = "threw" ->
                 IF pollCount < MaxPolls
                 THEN /\ polling' = "poll"
                      /\ UNCHANGED shown
                 ELSE /\ shown' = Status("FAILED", 0)
                      /\ polling' = "done"
            [] res.kind = "not_found" ->
                 /\ shown' = Status("FAILED", 0)
                 /\ polling' = "done"
            [] OTHER ->
                 /\ shown' = res.status
                 /\ polling' = IF res.status = Status("COMPLETED", 0) THEN "result"
                               ELSE IF res.status = Status("FAILED", 0) THEN "done"
                               ELSE "poll"
    /\ UNCHANGED <<pollCount, statusRequests>>
    /\ UNCHANGED <<pipeline, fleet, push, consumer, framing, intervalClient>>

\* fetchResult: setStatus('COMPLETED') with the image URL, or 'FAILED' when the
\* request fails.
ChainedFetchResult ==
    /\ polling = "result"
    /\ \E ok \in BOOLEAN :
          shown' = IF ok THEN Status("COMPLETED", 0) ELSE Status("FAILED", 0)
    /\ polling' = "done"
    /\ UNCHANGED <<pollCount, statusRequests, pollsInFlight>>
    /\ UNCHANGED <<pipeline, fleet, push, consumer, framing, intervalClient>>

ChainedInit == Start({DefaultMaxRetries}, {NoTask}) /\ variant = "kv" /\ ~skipReview

ChainedNext ==
    \/ ChainedPoll
    \/ ChainedResponse
    \/ ChainedFetchResult

\* Every timer set with setTimeout fires and every fetch settles.
ChainedSpec == ChainedInit /\ [][ChainedNext]_vars /\ WF_vars(ChainedNext)

----------------------------------------------------------------------------
(* The polling client that polls with setInterval: pollStatus and           *)
(* fetchResult of the older front end, against the older D1-backed handler. *)

\* The statuses the pipeline of the older handler stores, in order: PENDING,
\* ANALYZING, GENERATING, COMPLETED; FAILED from any of the first three.
NextServed(st) ==
    (IF st = Status("PENDING", 0) THEN {Status("ANALYZING", 0)}
     ELSE IF st = Status("ANALYZING", 0) THEN {Status("GENERATING", 0)}
     ELSE IF st = Status("GENERATING", 0) THEN {Status("COMPLETED", 0)}
     ELSE {})
    \cup (IF st \in {Status("COMPLETED", 0), Status("FAILED", 0)} THEN {}
          ELSE {Status("FAILED", 0)})

\* The background pipeline stores its next status.
ServerAdvance ==
    /\ \E st \in NextServed(served) : served' = st
    /\ UNCHANGED <<interval, requests, displayed, sawTerminal, resultFetches>>
    /\ UNCHANGED <<pipeline, fleet, push, consumer, framing, chained>>

\* The timer fires: fetch(`${apiBase}/status/${tid}`) is started, whether or
\* not earlier requests have returned.
IntervalTick(i) ==
    /\ interval = "set"
    /\ requests[i] = FreeSlot
    /\ requests' = [requests EXCEPT ![i] = [phase |-> "sent", status |-> NoStatus]]
    /\ UNCHANGED <<interval, served, displayed, sawTerminal, resultFetches>>
    /\ UNCHANGED <<pipeline, fleet, push, consumer, framing, chained>>

\* GET /api/status/:taskId: the server answers with the status stored now.
ServerAnswer(i) ==
    /\ requests[i].phase = "sent"
    /\ requests' = [requests EXCEPT ![i] = [phase |-> "answered", status |-> served]]
    /\ UNCHANGED <<interval, served, displayed, sawTerminal, resultFetches>>
    /\ UNCHANGED <<pipeline, fleet, push, consumer, framing, chained>>

\* The callback's continuation when its answer arrives: setStatus(data.status);
\* on COMPLETED clearInterval and fetchResult(tid); on FAILED clearInterval.
IntervalDeliver(i) ==
    /\ requests[i].phase = "answered"
    /\ requests' = [requests EXCEPT ![i] = FreeSlot]
    /\ displayed' = requests[i].status
    /\ sawTerminal' = (sawTerminal \/ requests[i].status
                                        \in {Status("COMPLETED", 0), Status("FAILED", 0)})
    /\ interval' = IF requests[i].status
                       \in {Status("COMPLETED", 0), Status("FAILED", 0)}
                   THEN "cleared" ELSE interval
    /\ resultFetches' = IF requests[i].status = Status("COMPLETED", 0)
                        THEN resultFetches + 1 ELSE resultFetches
    /\ UNCHANGED served
    /\ UNCHANGED <<pipeline, fleet, push, consumer, framing, chained>>

\* The request fails: catch (e) { console.error(e) }
IntervalRequestFails(i) ==
    /\ requests[i].phase \in {"sent", "answered"}
    /\ requests' = [requests EXCEPT ![i] = FreeSlot]
    /\ UNCHANGED <<interval, served, displayed, sawTerminal, resultFetches>>
    /\ UNCHANGED <<pipeline, fleet, push, consumer, framing, chained>>

IntervalInit == Start({DefaultMaxRetries}, {NoTask}) /\ variant = "legacy"

IntervalNext ==
    \/ ServerAdvance
    \/ \E i \in 1 .. MaxOverlap :
          \/ IntervalTick(i)
          \/ ServerAnswer(i)
          \/ IntervalDeliver(i)
          \/ IntervalRequestFails(i)

IntervalSpec == IntervalInit /\ [][IntervalNext]_vars

----------------------------------------------------------------------------
(* Properties.                                                              *)

InLoopVariant == variant \in {"kv", "d1"}

\* No error was thrown in the background pipeline.
NoFailure == error = "none" /\ ~catchFailed

\* C1: For maxRetries >= 1, whatever the review verdicts and whether review is
\* enabled or not, generateWithReview invokes generateImage at most maxRetries
\* times.
C1_GenerateAtMostMaxRetries ==
    (InLoopVariant /\ maxRetries >= 1) => genCalls <= maxRetries

\* C1 case: a run that used every attempt it was allowed.
C1_Witness ==
    /\ variant = "kv" /\ ~skipReview
    /\ maxRetries = MaxRetriesBound
    /\ genCalls = maxRetries
    /\ result.returned

\* C2: If the review of attempt k is approved, generateWithReview returns the
\* image and the verdict of attempt k, and no generateImage call, review call or
\* progress callback is made for an attempt after k.
C2_FirstSuccessWins ==
    (reviewCalls >= 1 /\ lastRevOut.approved) =>
        /\ result = LoopResult(lastGenOut, lastRevOut, reviewCalls)
        /\ attempt = reviewCalls
        /\ genCalls = reviewCalls
        /\ \A i \in 1 .. Len(events) : events[i].attempt <= reviewCalls
        /\ events[Len(events)] = Event("REVIEWING", reviewCalls)

\* C2 case: approval at an attempt before the last allowed one, the pipeline
\* having run to its end.
C2_Witness ==
    /\ reviewCalls = 2 /\ lastRevOut.approved
    /\ maxRetries > reviewCalls
    /\ Done

\* C3: With review disabled and maxRetries >= 1, generateWithReview makes exactly
\* one generateImage call and no review call, never emits REVIEWING or
\* REGENERATING, and returns attempts = 1 with an approved verdict whose overall
\* score and every score are 10; the task then ends COMPLETED.
C3_SkipReview ==
    (variant = "kv" /\ skipReview /\ maxRetries >= 1) =>
        /\ genCalls <= 1
        /\ reviewCalls = 0
        /\ \A i \in 1 .. Len(events) : events[i] = Event("GENERATING", 1)
        /\ Len(events) <= 1
        /\ lastStored.name \notin {"REVIEWING", "REGENERATING"}
        /\ result.returned =>
              /\ genCalls = 1
              /\ result.attempts = 1
              /\ result.imageBuffer = lastGenOut
              /\ result.finalReview.approved
              /\ result.finalReview.overall_score = 10
              /\ \A d \in Dimensions : result.finalReview.scores[d] = 10
        /\ (Done /\ NoFailure /\ store.exists) =>
              /\ result.returned
              /\ store.status = Status("COMPLETED", 0)
              /\ store.analysis_result.expert_review = AutoApproveReview
              /\ store.analysis_result.generation_attempts = 1

\* C3 case: review disabled, more than one attempt allowed, the task completed.
C3_Witness ==
    /\ variant = "kv" /\ skipReview /\ maxRetries > 1
    /\ Done
    /\ store.exists /\ store.status = Status("COMPLETED", 0)
    /\ genCalls = 1

\* C4: If no attempt within maxRetries (>= 1) is approved and no call fails,
\* generateWithReview returns normally with the image of the last generateImage
\* call and the verdict of the last review, which is not approved.
C4_ExhaustionReturnsLast ==
    (InLoopVariant /\ ~skipReview /\ maxRetries >= 1) =>
        /\ (attempt > maxRetries /\ pc # "loop_head") =>
              result.returned /\ ~result.finalReview.approved
        /\ (result.returned /\ ~result.finalReview.approved) =>
              /\ result = LoopResult(lastGenOut, lastRevOut, maxRetries)
              /\ result.imageBuffer \in GenerateOutcomes
              /\ genCalls = maxRetries
              /\ reviewCalls = maxRetries
              /\ attempt = maxRetries + 1

\* C4 case: every allowed attempt was rejected and the loop has returned.
C4_Witness ==
    /\ maxRetries = 2 /\ ~skipReview
    /\ result.returned /\ ~result.finalReview.approved
    /\ pc = "after_loop" /\ error = "none"

\* C5: When every review within maxRetries is rejected and nothing fails, the
\* task's final stored status is COMPLETED, never FAILED, and the record carries
\* the last verdict, with approved = false, and an attempt count of maxRetries.
C5_ExhaustionCompletes ==
    (InLoopVariant /\ ~skipReview
        /\ result.returned /\ ~lastRevOut.approved /\ NoFailure /\ store.exists) =>
        /\ store.status.name # "FAILED"
        /\ Done =>
              /\ store.status = Status("COMPLETED", 0)
              /\ store.analysis_result.expert_review = lastRevOut
              /\ ~store.analysis_result.expert_review.approved
              /\ store.analysis_result.generation_attempts = maxRetries
              /\ store.generated_image_path = "generated.jpg"
              /\ ossGenerated = lastGenOut

\* C5 case: two attempts allowed, both rejected, the task completed.
C5_Witness ==
    /\ maxRetries = 2 /\ reviewCalls = 2 /\ ~lastRevOut.approved
    /\ Done /\ NoFailure
    /\ store.exists /\ store.status = Status("COMPLETED", 0)

\* What C6 asserts of a returned loop result.
AttemptsCountCalls ==
    /\ result.attempts = genCalls
    /\ result.attempts = reviewCalls
    /\ 1 <= result.attempts /\ result.attempts <= maxRetries
    /\ result.finalReview = lastRevOut

\* C6 as stated: Whenever generateWithReview returns with review enabled,
\* attempts equals the number of generateImage calls and the number of review
\* calls made, lies in 1 .. maxRetries, and finalReview is the verdict of the
\* last review made.
C6_AttemptsCountCalls_Original ==
    (InLoopVariant /\ ~skipReview /\ result.returned) => AttemptsCountCalls

\* C6 (amended): Whenever generateWithReview, called with maxRetries >= 1 and
\* review enabled, returns, attempts equals the number of generateImage calls
\* and the number of review calls made, lies in 1 .. maxRetries, and finalReview
\* is the verdict of the last review made; the completed task stores that
\* verdict and that attempt count.
C6_AttemptsCountCalls ==
    (InLoopVariant /\ ~skipReview /\ maxRetries >= 1 /\ result.returned) =>
        /\ AttemptsCountCalls
        /\ (Done /\ NoFailure /\ store.exists) =>
              /\ store.status = Status("COMPLETED", 0)
              /\ store.analysis_result.expert_review = lastRevOut
              /\ store.analysis_result.generation_attempts = reviewCalls

\* C6 case: three attempts, two rejections then an approval, task completed.
C6_Witness ==
    /\ maxRetries = 3 /\ genCalls = 3 /\ reviewCalls = 3
    /\ Len(events) = 8
    /\ events[3] = Event("REGENERATING", 1) /\ events[6] = Event("REGENERATING", 2)
    /\ lastRevOut.approved
    /\ result.attempts = 3
    /\ Done /\ store.exists /\ store.status = Status("COMPLETED", 0)
    /\ store.analysis_result.expert_review = lastRevOut

\* C7: Every review result the loop acts on has approved = true exactly when
\* every score is at least 7: no verdict with a score below 7 is accepted as
\* approved, and no verdict with all scores at least 7 causes a retry.
C7_ApprovedIffAllScoresPass ==
    (reviewCalls >= 1) =>
        (IsApproved(lastReview) <=> MinScore(lastReview) >= ApprovalThreshold)

\* The stage ordering PENDING < ANALYZING < GENERATING < COMPLETED/FAILED, with
\* REVIEWING and REGENERATING collapsed to GENERATING.
StageRank(st) ==
    CASE st.name = "PENDING" -> 1
      [] st.name = "ANALYZING" -> 2
      [] st.name \in {"GENERATING", "REVIEWING", "REGENERATING"} -> 3
      [] st.name \in {"COMPLETED", "FAILED"} -> 4
      [] OTHER -> 0

\* st is not later than nx: an earlier stage, or the same stage and an attempt
\* number that is not greater.
NotLater(st, nx) ==
    \/ StageRank(st) < StageRank(nx)
    \/ StageRank(st) = StageRank(nx) /\ st.attempt <= nx.attempt

\* C8: Along the statuses stored for one task, which are what a poller reads,
\* the stage never decreases in the order PENDING < ANALYZING < GENERATING <
\* COMPLETED/FAILED, and the attempt number the status carries never decreases.
C8_StatusMonotonic ==
    [][NotLater(lastStored, lastStored')]_vars

\* C8 case: the stored status has gone through a rejected attempt and reached
\* the second attempt's review.
C8_Witness ==
    /\ store.exists
    /\ store.status = Status("REVIEWING", 2)
    /\ lastStored = store.status

\* The error message a stored record carries: the KV record's error_message,
\* the D1 row's analysis_result.error.
StoredErrorMessage(t) ==
    IF t.error_message # "absent" THEN t.error_message ELSE t.analysis_result.error

\* C9: If the analysis reports the input infeasible, the task goes from
\* ANALYZING directly to FAILED with the analysis-provided reason as its error
\* message, and no generateImage or review call is made.
C9_InfeasibleFailsWithoutGenerating ==
    (InLoopVariant /\ IsInfeasible(analysisJson)) =>
        /\ genCalls = 0
        /\ reviewCalls = 0
        /\ lastStored.name \in {"PENDING", "ANALYZING", "FAILED"}
        /\ (Done /\ NoFailure /\ store.exists) =>
              /\ store.status = Status("FAILED", 0)
              /\ StoredErrorMessage(store) = FailureReason(analysisJson)

\* C10: If a step of the background pipeline fails, the stored status becomes
\* FAILED with the message of the captured failure, and no later stage runs.
C10_FailureStoresMessage ==
    /\ error # "none" => pc \in {"catch", "done"}
    /\ (Done /\ error # "none" /\ ~catchFailed /\ store.exists) =>
          /\ store.status = Status("FAILED", 0)
          /\ StoredErrorMessage(store) = error

C12_ReviewFailureFailsTask ==
    (reviewCalls >= 1 /\ lastRevOut = ReviewFailedReview) =>
        /\ genCalls = reviewCalls
        /\ error # "none"
        /\ pc \in {"catch", "done"}
        /\ (Done /\ ~catchFailed /\ store.exists) =>
              /\ store.status = Status("FAILED", 0)
              /\ StoredErrorMessage(store) = error

\* C13: When the review model's response cannot be parsed, reviewGeneratedImage
\* does not throw but returns a verdict with approved = false and a reason
\* naming the parse failure, so the loop makes its normal retry decision: a
\* further attempt if k < maxRetries, exhaustion otherwise.
C13_ParseFailureIsARejection ==
    (reviewCalls >= 1 /\ lastRevOut = ParseFailureReview) =>
        /\ ~IsApproved(lastRevOut)
        /\ lastRevOut.issues = "Failed to parse expert review response"
        /\ lastReview = lastRevOut
        /\ pc = "next_attempt" =>
              /\ error = "none"
              /\ attempt = reviewCalls
              /\ events[Len(events)] = Event("REGENERATING", reviewCalls)
              /\ eventReview = lastRevOut
        /\ pc \in {"generate", "review"} =>
              /\ attempt = reviewCalls + 1
              /\ attempt <= maxRetries
        /\ (pc = "loop_head" /\ attempt > reviewCalls /\ LoopCondition(attempt, maxRetries)) =>
              /\ ~result.returned
              /\ error = "none"
        /\ result.returned =>
              /\ reviewCalls = maxRetries
              /\ result = LoopResult(lastGenOut, lastRevOut, maxRetries)

\* C13 case: the first review could not be parsed and, more attempts being
\* allowed, a second image was generated.
C13_Witness ==
    /\ lastRevOut = ParseFailureReview
    /\ reviewCalls = 1 /\ genCalls = 2 /\ maxRetries = 3
    /\ lastGenOut \in GenerateOutcomes
    /\ events[3] = Event("REGENERATING", 1)

\* C14: The result lookup returns the generated image and the analysis summary
\* only for a task whose stored status is COMPLETED; for every other stored
\* status it returns a 400 rejection whose body names the task's actual current
\* status.
C14_ResultOnlyWhenCompleted ==
    lookup.kind = "result" =>
        /\ (lookup.image # NullImage \/ lookup.analysis # AbsentAnalysis) =>
              lookup.task.status = Status("COMPLETED", 0)
        /\ (lookup.task.exists /\ lookup.task.status # Status("COMPLETED", 0)) =>
              /\ lookup.http = 400
              /\ lookup.status = lookup.task.status

\* C15: A status or result lookup for an id that was never created, or whose
\* record has expired, returns NotFound (404, TASK_NOT_FOUND); no orchestrator
\* write issued after the record expired re-creates it, so a lookup never
\* returns a partially populated record.
C15_ExpiredStaysNotFound ==
    (variant = "kv" /\ ~prior.exists) =>
        /\ (lookup.kind # "none" /\ ~lookup.task.exists) =>
              /\ lookup.http = 404
              /\ lookup.code = "TASK_NOT_FOUND"
              /\ lookup.status = NoStatus
              /\ lookup.image = NullImage
        /\ expired => ~store.exists
        /\ (lookup.kind = "status" /\ lookup.task.exists) =>
              /\ lookup.http = 200
              /\ lookup.status = lookup.task.status

\* C16: A task record expires a fixed duration (3600 s) after its creation
\* time, however many status writes occur: no write extends the record's
\* lifetime beyond createdAt + 3600 s.
C16_ExpiryFixedFromCreation ==
    (variant = "kv" /\ store.exists /\ ~prior.exists /\ ~expired) =>
        /\ expiresAt = createdAt + ExpirationTtl
        /\ now < createdAt + ExpirationTtl

\* C17: Creating a task whose id already exists in the store fails and leaves
\* the existing record unchanged.
C17_CreateFailsOnExistingId ==
    prior.exists =>
        /\ response # "task"
        /\ store.exists => store = prior

\* The three rejections C18 names, stated on the request.
BadInviteCode(req) == req.env # "" /\ req.invite_code # req.env
MissingImage(req) == ~req.isFile
OversizedImage(req) == req.isFile /\ req.size > MaxImageSize

\* C18: An upload rejected for a missing image, an image larger than 10 MB or a
\* bad access code returns an error with a machine-readable code, and causes no
\* task record to be created, no object-store write and no analysis, generation
\* or review call.
C18_RejectedUploadDoesNothing ==
    /\ \A req \in Requests :
          /\ BadInviteCode(req) => ValidateUpload("kv", req) = "INVALID_INVITE_CODE"
          /\ (MissingImage(req) /\ ~BadInviteCode(req)) =>
                ValidateUpload("kv", req) = "NO_IMAGE"
          /\ (OversizedImage(req) /\ ~BadInviteCode(req)) =>
                ValidateUpload("kv", req) = "IMAGE_TOO_LARGE"
          /\ ValidateUpload("kv", req) = "ok" =>
                ~(BadInviteCode(req) \/ MissingImage(req) \/ OversizedImage(req))
    /\ (variant = "kv" /\ response \notin {"none", "task", "error"}) =>
          response \in RejectionCodes
    /\ response \in RejectionCodes \cup {"no_code"} =>
          /\ pc = "done" /\ call = IdleCall
          /\ ~store.exists /\ lastStored = NoStatus
          /\ ~ossOriginal /\ ossGenerated = NullImage
          /\ analysisJson = "absent"
          /\ genCalls = 0 /\ reviewCalls = 0 /\ events = << >>
          /\ error = "none"

\* C18 case: the KV handler has rejected an upload for its size.
C18_Witness ==
    /\ variant = "kv"
    /\ response = "IMAGE_TOO_LARGE"
    /\ pc = "done"

\* C19: Whenever the upload endpoint returns a taskId, the task record already
\* exists in the store, and the response is produced before, and does not depend
\* on the outcome of, any analyze, generate or review call; a later pipeline
\* error appears only in the task record, never in the upload response.
C19_ResponseBeforePipeline ==
    /\ response = "task" =>
          /\ lastStored # NoStatus
          /\ ~expired => store.exists
    /\ (pc = "bg_start" /\ response = "task") =>
          /\ analysisJson = "absent" /\ genCalls = 0 /\ reviewCalls = 0
          /\ error = "none"
    /\ (analysisJson # "absent" \/ genCalls > 0 \/ reviewCalls > 0
          \/ error # "none" \/ catchFailed) =>
          response = "task"

\* C19 case: the taskId was returned, the pipeline later failed in its second
\* generateImage call, and the failure is in the record.
C19_Witness ==
    /\ response = "task"
    /\ genCalls = 2 /\ lastGenOut = GenerateThrew
    /\ Done
    /\ store.exists /\ store.status = Status("FAILED", 0)
    /\ store.error_message = error

\* C20: Assuming every external call eventually returns or fails, every created
\* task eventually reaches stored status COMPLETED or FAILED, or its record
\* expires; no task record stays in a non-terminal status forever.
C20_TaskEndsOrExpires ==
    (InLoopVariant /\ Done /\ response = "task" /\ store.exists) =>
        \/ store.status \in {Status("COMPLETED", 0), Status("FAILED", 0)}
        \/ variant = "kv" /\ expiresAt <= now + ExpirationTtl

\* C22: In every reachable state of a task record, an error message is present
\* only if the status is FAILED.
C22_ErrorMessageOnlyWhenFailed ==
    (store.exists /\ StoredErrorMessage(store) # "absent") =>
        store.status = Status("FAILED", 0)

\* C22 case: the KV record of a task whose generated image was empty carries the
\* message of that failure.
C22_Witness ==
    /\ variant = "kv"
    /\ store.exists
    /\ store.error_message = "Generated image buffer is empty (0 bytes)"
    /\ store.status = Status("FAILED", 0)

\* What C23 asserts of one step of the task record.
ImageReferencesStep ==
    /\ (store'.exists /\ store'.generated_image_path # "absent") =>
          store'.status = Status("COMPLETED", 0)
    /\ (store'.exists /\ store'.generated_image_path # store.generated_image_path) =>
          /\ store.generated_image_path = "absent"
          /\ store.status # Status("COMPLETED", 0)
          /\ store'.generated_image_path = "generated.jpg"
    /\ (store.exists /\ store'.exists /\ store.generated_image_path # "absent") =>
          /\ store'.generated_image_path = store.generated_image_path
          /\ store'.status = store.status
    /\ (store.exists /\ store'.exists) =>
          store'.original_image_path = store.original_image_path
    /\ store'.exists => store'.original_image_path = "original.jpg"

\* C23: The generated-image reference is absent while the task is not COMPLETED,
\* is set exactly once, in the same write that sets status COMPLETED, and is
\* never changed afterwards; the original-image reference never changes after
\* the task is created.
C23_ImageReferencesSetOnce ==
    [][ImageReferencesStep]_vars

\* C23 case: a record that went through two reviewed attempts and then received
\* its generated-image reference with COMPLETED.
C23_Witness ==
    /\ store.exists
    /\ store.status = Status("COMPLETED", 0)
    /\ store.generated_image_path = "generated.jpg"
    /\ store.original_image_path = "original.jpg"
    /\ reviewCalls = 2
    /\ Done

\* C24: From the moment the analysis stage completes, every stored state of the
\* task record contains the analysis result, including the GENERATING sub-states
\* and a FAILED state reached through a later generation or storage failure.
C24_AnalysisResultStored ==
    (InLoopVariant /\ store.exists /\ analysisJson # "absent"
        /\ \/ store.status.name \in
                 {"GENERATING", "REVIEWING", "REGENERATING", "COMPLETED"}
           \/ store.status.name = "FAILED" /\ genCalls >= 1) =>
        store.analysis_result.analysis = analysisJson

\* C25: A task record is created only after the original image has been
\* persisted in the object store: if that upload fails, no task record exists
\* and no task id is returned to the caller.
C25_RecordOnlyAfterOriginalStored ==
    (InLoopVariant /\ (store.exists \/ response = "task")) => ossOriginal

\* The last progress callback made.
LastEvent == events[Len(events)]

\* generateWithReview is no longer running.
LoopEnded == pc \in {"after_loop", "put_generated", "catch", "done"}

\* The order of the callbacks and capability calls of one step of the loop.
LoopOrderStep ==
    (InLoopVariant /\ ~skipReview) =>
        /\ genCalls' # genCalls =>
              /\ genCalls' = attempt
              /\ events # << >> /\ LastEvent = Event("GENERATING", attempt)
              /\ reviewCalls = attempt - 1
        /\ reviewCalls' # reviewCalls =>
              /\ reviewCalls' = attempt
              /\ LastEvent = Event("REVIEWING", attempt)
              /\ genCalls = attempt
        /\ events' # events =>
              /\ events' = Append(events, LastEvent')
              /\ LastEvent'.status = "GENERATING" =>
                    /\ genCalls = LastEvent'.attempt - 1
                    /\ reviewCalls = LastEvent'.attempt - 1
                    /\ IF LastEvent'.attempt = 1
                       THEN events = << >>
                       ELSE LastEvent = Event("REGENERATING", LastEvent'.attempt - 1)
              /\ LastEvent'.status = "REVIEWING" =>
                    /\ genCalls' = LastEvent'.attempt
                    /\ genCalls' = genCalls + 1
                    /\ LastEvent = Event("GENERATING", LastEvent'.attempt)
              /\ LastEvent'.status = "REGENERATING" =>
                    /\ reviewCalls' = LastEvent'.attempt
                    /\ reviewCalls' = reviewCalls + 1
                    /\ LastEvent = Event("REVIEWING", LastEvent'.attempt)
                    /\ ~lastRevOut'.approved
                    /\ eventReview' = lastRevOut'

\* Once the loop has ended without an error, a Generate call for attempt k+1
\* was made for every REGENERATING(k) emitted.
RegeneratingFollowedByGenerate ==
    (InLoopVariant /\ ~skipReview /\ LoopEnded /\ error = "none") =>
        \A i \in 1 .. Len(events) :
            events[i].status = "REGENERATING" => genCalls >= events[i].attempt + 1

\* Once the loop has ended, every REGENERATING(k) emitted was followed by a
\* Generate call for attempt k+1, unless k = maxRetries, when the loop returned
\* the last image with that verdict, or a status callback failed.
RegeneratingFollowedUnlessLast ==
    (InLoopVariant /\ ~skipReview /\ LoopEnded) =>
        \A i \in 1 .. Len(events) :
            events[i].status = "REGENERATING" =>
                \/ genCalls >= events[i].attempt + 1
                \/ /\ events[i].attempt = maxRetries
                   /\ i = Len(events)
                   /\ result = ExhaustedResult(lastGenOut, eventReview, maxRetries)
                \/ /\ ~result.returned
                   /\ error \in {"KV get failed", "KV put failed", "D1 error",
                                 "CHECK constraint failed"}
                   /\ i >= Len(events) - 1

\* C30 as stated: In every run of the loop with review enabled, the callbacks
\* and capability calls of attempt k occur in the order GENERATING(k), Generate,
\* REVIEWING(k), Review, and, only after a rejection, REGENERATING(k) carrying
\* that rejection verdict; GENERATING(k+1) is emitted only after REGENERATING(k),
\* and every REGENERATING(k) is followed by a Generate call for attempt k+1.
C30_LoopOrder_Original ==
    [][LoopOrderStep /\ RegeneratingFollowedByGenerate']_vars

\* C30 (amended): the same order of callbacks and calls within and between
\* attempts; every REGENERATING(k) with k < maxRetries is followed, unless a
\* status callback fails, by a Generate call for attempt k+1, and
\* REGENERATING(maxRetries) by the return of the last image with that verdict.
C30_LoopOrder ==
    [][LoopOrderStep /\ RegeneratingFollowedUnlessLast']_vars

\* C30 case: two rejected attempts of three, the third attempt's image being
\* generated after REGENERATING(2).
C30_Witness ==
    /\ maxRetries = 3 /\ ~skipReview
    /\ Len(events) >= 7
    /\ events[6] = Event("REGENERATING", 2)
    /\ events[7] = Event("GENERATING", 3)
    /\ genCalls = 3

\* What C21 asserts of one step of the pipeline of task t.
UpdateStep(t) ==
    /\ (updating[t].phase = "get" /\ updating'[t].phase = "put") =>
          updating'[t].cur = tasks[t]
    /\ (updating[t].phase = "put" /\ updating'[t].phase = "idle"
            /\ caught'[t] = caught[t]) =>
          /\ \A u \in TaskIds \ {t} : tasks'[u] = tasks[u]
          /\ updating[t].cur.task.exists =>
                /\ tasks'[t].task.exists
                /\ tasks'[t].id = t
                /\ tasks'[t].task.status = updating[t].patch.status
                /\ tasks'[t].task = ApplyPatch(updating[t].cur.task, updating[t].patch)

\* C21: With several tasks in flight and their store reads and writes
\* interleaved arbitrarily, every status update the orchestrator issues for a
\* task is applied to that task's record and to no other record: after
\* updateStatus(s) completes for a live task, that task's record has status s,
\* and no update is silently dropped.
C21_UpdatesAppliedToOwnRecord ==
    [][ /\ \A t \in TaskIds : UpdateStep(t)
        /\ \A k \in TaskIds : tasks'[k].task.exists => tasks'[k].id = k ]_vars

\* C21 case: the first task has completed while the second, between the read
\* and the write of a later update, still holds the record it read.
C21_Witness ==
    /\ tasks["t1"].task.status = Status("COMPLETED", 0)
    /\ tasks["t2"].task.status = Status("GENERATING", 1)
    /\ updating["t2"].phase = "put"
    /\ updating["t2"].patch.status = Status("REVIEWING", 1)
    /\ issued["t1"] = Len(PipelineUpdates)

\* The stream holds an event of this type.
HasEvent(type) == \E i \in 1 .. Len(sse) : sse[i].type = type

\* The positions of the image_chunk events of the stream.
ChunkIndexes == {i \in 1 .. Len(sse) : sse[i].type = "image_chunk"}

\* The chunk fields of the image_chunk events among the first n events,
\* concatenated in emission order.
RECURSIVE ChunksOf(_, _)
ChunksOf(stream, n) ==
    IF n = 0 THEN EncodedImage(0)
    ELSE IF stream[n].type = "image_chunk"
    THEN Concat(ChunksOf(stream, n - 1), stream[n].chunk)
    ELSE ChunksOf(stream, n - 1)

\* The number of chunks of a text of n characters.
NumChunks(n) == (n + ChunkSize - 1) \div ChunkSize

\* The stream of a successful run that generated an image of n characters.
SuccessStream(n) ==
    [i \in 1 .. 2 * Len(Stages) |->
        StepEvent(Stages[(i + 1) \div 2],
                  IF i % 2 = 1 THEN "processing" ELSE "completed")]
    \o [j \in 1 .. NumChunks(n) |->
          ChunkEvent(Str("slice", (j - 1) * ChunkSize, Min(j * ChunkSize, n)))]
    \o <<CompleteEvent>>

\* C26: On a successful run of the push (event-stream) handler the events are
\* emitted in this order: for each step in audit, analysis, prompt, generation,
\* review, a `processing` event followed by a `completed` event, with step n
\* completed before step n+1 starts processing; then the image chunks; then
\* exactly one `complete` event, which is the last event of the stream.  No
\* stream contains both a `complete` and an `error` event.
C26_SuccessfulStreamOrder ==
    /\ HasEvent("complete") => sse = SuccessStream(encoded)
    /\ ~(HasEvent("complete") /\ HasEvent("error"))
    /\ (ppc = "done" /\ ~HasEvent("error")) => HasEvent("complete")
    /\ \A i \in 1 .. Len(sse) :
          /\ i <= 2 * Len(Stages) =>
                sse[i].type = "error" \/ sse[i] = SuccessStream(0)[i]
          /\ sse[i].type = "image_chunk" => i > 2 * Len(Stages)
          /\ sse[i].type \in {"complete", "error"} => i = Len(sse)

\* C26 case: a run that ended after an image of two chunks.
C26_Witness ==
    /\ ppc = "done"
    /\ encoded = ChunkSize + 1
    /\ Len(sse) = 2 * Len(Stages) + 3
    /\ sse[Len(sse)] = CompleteEvent

\* C27: For every generated image (any encoded length, including 0 and lengths
\* that are not a multiple of 5000), concatenating the chunk fields of the
\* emitted image_chunk events in emission order yields exactly the original
\* encoded image, and every chunk except possibly the last has length 5000.
C27_ChunksRebuildImage ==
    /\ \A i \in ChunkIndexes :
          /\ Length(sse[i].chunk) >= 1
          /\ Length(sse[i].chunk) <= ChunkSize
          /\ (\E j \in ChunkIndexes : j > i) => Length(sse[i].chunk) = ChunkSize
    /\ SameText(ChunksOf(sse, Len(sse)), Str("slice", 0, Min(offset, encoded)))
    /\ HasEvent("complete") =>
          /\ SameText(ChunksOf(sse, Len(sse)), EncodedImage(encoded))
          /\ Cardinality(ChunkIndexes) = NumChunks(encoded)

\* C27 case: the longest image, sent as two full chunks and a shorter last one.
C27_Witness ==
    /\ ppc = "done"
    /\ encoded = MaxEncodedLength
    /\ Cardinality(ChunkIndexes) = 3
    /\ Length(sse[3].chunk) = encoded - 2 * ChunkSize
    /\ sse[4] = CompleteEvent

\* A stage of the push handler failed: an exception was caught, an error event
\* was sent, or an upload to the object store returned null.
StageFailed ==
    \/ pushError # "none"
    \/ HasEvent("error")
    \/ \E i \in 1 .. Len(ossUrls) : ossUrls[i] = "null"

\* C28: After the push consumer has processed a successful stream, the image it
\* holds as the result decodes to exactly the image the server generated: the
\* result is carried by the `complete` event or rebuilt by concatenating the
\* image_chunk events in emission order.
C28_ConsumerHoldsGeneratedImage ==
    (~isProcessing /\ ~alerted /\ HasEvent("complete") /\ ~StageFailed
        /\ consumed = Len(sse)) =>
        SameText(clientResult, EncodedImage(encoded))

\* C29: In the push variant, every failure of a pipeline stage (access-code
\* check, audit, analysis, prompt generation, image generation, review,
\* object-store upload) produces an `error` event that is the last event on that
\* stream, and that stream carries no `complete` event and no image_chunk event.
C29_StageFailureEndsWithError ==
    (ppc = "done" /\ StageFailed) =>
        /\ sse # << >>
        /\ sse[Len(sse)].type = "error"
        /\ ~HasEvent("complete")
        /\ ~HasEvent("image_chunk")

\* C31: Every status value the D1-backed orchestrator with the review loop
\* writes to the tasks table, the attempt-qualified ones included, is in the
\* set the table's CHECK constraint permits, so no status update is rejected by
\* the store and turned into a task failure.
C31_WrittenStatusesPermitted ==
    (variant = "d1") =>
        /\ call.phase # "idle" => CheckConstraintHolds(call.patch)
        /\ error # "CHECK constraint failed"

\* C32: If MAX_RETRIES parses to a value below 1 or to NaN, generateWithReview
\* makes no generateImage call and the task ends FAILED; it never ends
\* COMPLETED without a generated image.
C32_NoAttemptEndsFailed ==
    (variant = "kv" /\ (maxRetries = NaN \/ maxRetries < 1)) =>
        /\ genCalls = 0
        /\ reviewCalls = 0
        /\ events = << >>
        /\ ossGenerated = NullImage
        /\ result.returned => result.imageBuffer = NullImage
        /\ store.exists => store.status # Status("COMPLETED", 0)
        /\ (Done /\ ~catchFailed /\ store.exists) =>
              store.status = Status("FAILED", 0)

\* C32 case: MAX_RETRIES was a text without digits; the loop returned without an
\* image and the task was marked FAILED.
C32_Witness ==
    /\ variant = "kv" /\ maxRetries = NaN
    /\ result.returned /\ result.imageBuffer = NullImage
    /\ Done
    /\ store.exists /\ store.status = Status("FAILED", 0)
    /\ store.error_message = "Generated image buffer is null"

TerminalStatuses == {Status("COMPLETED", 0), Status("FAILED", 0)}

\* C33: Once a task's stored status is COMPLETED or FAILED, no later step of
\* the orchestrator writes to that record: COMPLETED is never followed by
\* FAILED, and FAILED is never followed by any other status.
C33_TerminalStatusIsFinal ==
    [][(store.exists /\ store.status \in TerminalStatuses) =>
          /\ call'.phase = "idle"
          /\ store' = store \/ ~store'.exists]_vars

\* C33 case: the D1-backed orchestrator returned after it marked an infeasible
\* task FAILED.
C33_Witness ==
    /\ variant = "d1"
    /\ IsInfeasible(analysisJson)
    /\ Done
    /\ store.exists /\ store.status = Status("FAILED", 0)

\* C37: On every path through the push handler (invalid access code, missing
\* image, audit failure, exception in a stage, success) the response stream
\* writer is closed exactly once, and no event is written after it has been
\* closed.
C37_WriterClosedOnce ==
    /\ closeCalls <= 1
    /\ ppc = "done" => closeCalls = 1
    /\ writer = "closed" <=> closeCalls >= 1
    /\ writer = "closed" => ppc \in {"finally", "done"}

\* The events the consumer has dispatched include an error event.
ErrorEventConsumed == \E i \in 1 .. consumed : sse[i].type = "error"

\* C38: When the push consumer receives an `error` event, it ends processing in
\* a failed state: the error is reported to the user, no step is left in status
\* `processing` once the stream has ended, and no result image is set.
C38_ErrorEventFailsProcessing ==
    (ErrorEventConsumed /\ ~isProcessing) =>
        /\ alerted
        /\ \A id \in StepIds : clientSteps[id] # "processing"
        /\ clientResult = NullText

\* The number of events telling that the generation step started.
GenerationsStarted ==
    Cardinality({i \in 1 .. Len(sse) : sse[i] = StepEvent("generation", "processing")})

\* C39: In the push variant the review answer never changes the emitted event
\* sequence: whether or not the review answers PASS, the review step is
\* reported completed and the image chunks and the `complete` event are
\* emitted, and only one generation is ever made per request.
C39_ReviewAnswerIgnored ==
    /\ GenerationsStarted <= 1
    /\ reviewText # "none" =>
          /\ pushError = "none"
          /\ ~HasEvent("error")
          /\ Len(sse) >= 2 * Len(Stages)
          /\ \A i \in 1 .. Len(sse) : sse[i] = SuccessStream(encoded)[i]
          /\ ppc = "done" => sse = SuccessStream(encoded)

\* C39 case: the review answered FAIL and the stream ended with the chunks and
\* the complete event.
C39_Witness ==
    /\ reviewText = "FAIL: no person"
    /\ ppc = "done"
    /\ encoded = ChunkSize
    /\ sse[Len(sse)] = CompleteEvent
    /\ GenerationsStarted = 1

\* The dispatches of a stream of events, each once, in emission order.
DispatchesOf(stream) == [i \in 1 .. Len(stream) |-> Dispatch(stream[i].type, stream[i])]

\* C36: For every way the bytes of the event stream are split across reads, the
\* push consumer dispatches exactly the events the server emitted, each exactly
\* once and in emission order.
C36_DispatchesWhatWasEmitted ==
    /\ Len(dispatched) <= Len(emitted)
    /\ dispatched = SubSeq(DispatchesOf(emitted), 1, Len(dispatched))
    /\ wire = << >> =>
          /\ dispatched = DispatchesOf(emitted)
          /\ buffer = << >>
          /\ held = << >>

\* C36 case: two events were dispatched and a read ended between the two bytes
\* of a character of the third event, whose rest is still to be read.
C36_Witness ==
    /\ Len(emitted) = MaxFrames
    /\ emitted[2] = CompleteEvent
    /\ Len(dispatched) = 2
    /\ held # << >>
    /\ wire # << >>

\* C34: The timeout-chained polling client issues at most 300 status requests
\* per task, has at most one status request in flight at a time, and always
\* ends in a terminal client state: it stops polling as soon as it observes
\* COMPLETED, FAILED or TASK_NOT_FOUND, and otherwise sets FAILED after the
\* 300th poll, including when every request errors.
C34_ChainedPollingEnds ==
    /\ [](/\ statusRequests <= MaxPolls
          /\ pollsInFlight <= 1
          /\ shown \in TerminalStatuses => polling \in {"done", "result"}
          /\ polling = "done" =>
                /\ shown \in TerminalStatuses
                /\ pollsInFlight = 0
          /\ pollCount > MaxPolls =>
                /\ polling = "done"
                /\ shown = Status("FAILED", 0)
                /\ statusRequests = MaxPolls)
    /\ <>(polling = "done")

\* C34 case: 300 status requests ended without a terminal answer, and the next
\* call of poll set FAILED without a request.
C34_Witness ==
    /\ polling = "done"
    /\ statusRequests = MaxPolls
    /\ pollCount = MaxPolls + 1
    /\ pollsInFlight = 0
    /\ shown = Status("FAILED", 0)

\* C35: In the interval-based polling client, where a new status request starts
\* every 2 s whether or not the previous one has returned, a status response
\* that arrives after a terminal status (COMPLETED or FAILED) was observed never
\* overwrites the displayed status with a non-terminal one, and the result is
\* fetched at most once per task.
C35_TerminalStatusStaysDisplayed ==
    /\ sawTerminal => displayed \in TerminalStatuses
    /\ resultFetches <= 1

====
